---- MODULE Spec2Model ----
(***************************************************************************)
(* Model of the web3-signer API server: the wallet-signature login, the    *)
(* TOTP enrollment and the pending-MFA login of routes/auth.ts, over the    *)
(* session store (express-session) and the users/auth/messages tables.      *)
(* Every handler is cut at its awaits: each action is the synchronous run   *)
(* of the handler between two awaits, so that requests interleave where     *)
(* Node's event loop lets them.                                             *)
(***************************************************************************)
EXTENDS Integers, Sequences, FiniteSets, TLC

(* ------------------------------ bounds -------------------------------- *)

\* the clock stops after this many ticks
MaxTicks == 6
\* bonus phrases drawn in one run
MaxPhrases == 2
\* oldest TOTP code a client submits, in time steps before the current one
MaxCodeAge == 3
\* rows of the messages table
MaxMessages == 11
\* rows of the users table once rows have been deleted
MaxUsers == 2
\* the longest batch a client sends, and the rows of the messages table where
\* batches are sent
MaxBatch == 3
MaxBatchRows == 4

\* one tick of the model clock, in milliseconds
TickMs == 60 * 1000

Sessions == {"s1", "s2"}
Slots == {1, 2}

(* ------------------------------ values -------------------------------- *)

\* the addresses ethers recovers (checksummed) and their lower-case forms
Wallets == {"0xAa", "0xBb"}
\* what recovery yields when the signature was made over another message
StrangerAddress == "0xFf"

\* variant: the address is kept as it was typed
toLowerCase_asTyped(a) == a

toLowerCase(a) ==
  CASE a = "0xAa" -> "0xaa"
    [] a = "0xBb" -> "0xbb"
    [] a = "0xFf" -> "0xff"
    [] OTHER -> a

\* a signature made by wallet w over message m; a malformed one
Sig(w, m) == [signer |-> w, msg |-> m]
MalformedSig == [signer |-> "", msg |-> ""]
Signatures == {Sig(w, m) : w \in Wallets, m \in {"login", "enableMFA"}} \cup {MalformedSig}

\* variant: a malformed signature recovers to the empty address
recoverAddress_returnsEmpty(message, signature) ==
  IF signature = MalformedSig THEN [ok |-> TRUE, address |-> ""]
  ELSE IF signature.msg = message THEN [ok |-> TRUE, address |-> signature.signer]
  ELSE [ok |-> TRUE, address |-> StrangerAddress]

\* ethers.recoverAddress over hashMessage(message): throws on a malformed
\* signature, otherwise yields the signer of that very message
recoverAddress(message, signature) ==
  IF signature = MalformedSig THEN [ok |-> FALSE, address |-> ""]
  ELSE IF signature.msg = message THEN [ok |-> TRUE, address |-> signature.signer]
  ELSE [ok |-> TRUE, address |-> StrangerAddress]

\* variant: any well-formed signature passes, whoever signed
verifySignature_anySigner(message, signature, expectedAddress) ==
  recoverAddress(message, signature).ok

\* variant: the catch block throws the error on
verifySignatureResult_rethrows(message, signature, expectedAddress) ==
  LET rec == recoverAddress(message, signature)
  IN IF rec.ok
     THEN [ok |-> TRUE, value |-> toLowerCase(rec.address) = toLowerCase(expectedAddress)]
     ELSE [ok |-> FALSE, value |-> FALSE]

\* utils/signature.ts 7-19: what the promise of verifySignature settles to (ok
\* is FALSE when it rejects); the catch block turns every error into false
verifySignatureResult(message, signature, expectedAddress) ==
  LET rec == recoverAddress(message, signature)
  IN IF rec.ok
     THEN [ok |-> TRUE, value |-> toLowerCase(rec.address) = toLowerCase(expectedAddress)]
     ELSE [ok |-> TRUE, value |-> FALSE]

verifySignature(message, signature, expectedAddress) ==
  verifySignatureResult(message, signature, expectedAddress).value

\* the sha256-derived base32 secret, kept as the string that is hashed
MfaServerSalt == "salt"

\* crypto.createHash('sha256').update(input).digest(): 32 bytes. The hash is
\* stood for by a table of the inputs of this model, one byte sequence for
\* each input `${address}:${salt}` as it is written, letter case included
DigestBytes == 32
HashInputs ==
  {<<a, MfaServerSalt>> : a \in {"0xAa", "0xBb", "0xFf", "0xaa", "0xbb", "0xff", ""}}
InputCode(input) ==
  CASE input[1] = "0xaa" -> 1 [] input[1] = "0xbb" -> 2 [] input[1] = "0xff" -> 3
    [] input[1] = "0xAa" -> 4 [] input[1] = "0xBb" -> 5 [] input[1] = "0xFf" -> 6
    [] OTHER -> 0
sha256(input) ==
  [i \in 1..DigestBytes |-> (InputCode(input) * (97 + 29 * i) + 13 * i * i + 41) % 256]

\* digest('hex'): two hexadecimal digits for each byte, the high one first
HexDigest(bytes) ==
  [k \in 1..(2 * Len(bytes)) |->
     IF k % 2 = 1 THEN bytes[(k + 1) \div 2] \div 16 ELSE bytes[k \div 2] % 16]

\* parseInt(hash.substr(i * 2, 2), 16), i counted from 0
ParseHexPair(hash, i) == 16 * hash[2 * i + 1] + hash[2 * i + 2]

base32Chars ==
  <<"A", "B", "C", "D", "E", "F", "G", "H", "I", "J", "K", "L", "M", "N", "O", "P",
    "Q", "R", "S", "T", "U", "V", "W", "X", "Y", "Z", "2", "3", "4", "5", "6", "7">>
SecretLength == 32

\* auth.ts 38-53: the hex digest of the input, turned into base32 characters
SecretOfInput(input) ==
  LET hash == HexDigest(sha256(input))
  IN [i \in 1..SecretLength |-> base32Chars[(ParseHexPair(hash, i - 1) % 32) + 1]]

\* the secrets of the inputs of this model, computed once
SecretTable == [input \in HashInputs |-> SecretOfInput(input)]

\* variant: the address is hashed as it was typed
generateMFASecret_asTyped(address) == SecretTable[<<address, MfaServerSalt>>]

\* auth.ts 33-36 and 53
generateMFASecret(address) == SecretTable[<<toLowerCase(address), MfaServerSalt>>]

\* crypto.randomBytes(16).toString('hex'): two hex digits per byte
BonusPhraseBytes == 16
NoPhrase == [nonce |-> 0, length |-> 0]
\* variant: every Login draws the same phrase
generateBonusPhrase_same(n) == [nonce |-> 1, length |-> 2 * BonusPhraseBytes]

generateBonusPhrase(n) == [nonce |-> n, length |-> 2 * BonusPhraseBytes]

MfaTimeoutMs == 5 * 60 * 1000
TotpStepMs == 30 * 1000
NullTime == -1
RecentTake == 10
MfaLoginWindow == 2
DefaultWindow == 0

\* the TOTP token of a secret at a time step; otplib's check with a window
TotpStep(t) == t \div TotpStepMs
TotpToken(secret, step) == [secret |-> secret, step |-> step]
GarbageToken == [secret |-> <<>>, step |-> 0]
authenticatorVerify(token, secret, window, t) ==
  \E d \in (0 - window)..window : token = TotpToken(secret, TotpStep(t) + d)

(* --------------------------- records ---------------------------------- *)

\* session data (types/index.ts); pendingAt is a history field: the clock
\* reading of the Login that stored the pending fields
EmptySession ==
  [stored |-> FALSE, userId |-> 0, address |-> "", pendingUserId |-> 0,
   mfaBonusPhrase |-> NoPhrase, pendingAt |-> NullTime]

NoAuth == [mfa |-> FALSE, awaitingMfa |-> FALSE, mfaTimeoutTimestamp |-> NullTime]
NoUser == [id |-> 0, address |-> "", role |-> "", auth |-> NoAuth, messages |-> <<>>]

\* a request body; absent names the fields that are missing or not strings
NoBody ==
  [message |-> "", signature |-> MalformedSig, address |-> "",
   mfa_code |-> GarbageToken, mfa_bonus_phrase |-> NoPhrase, absent |-> {},
   items |-> <<>>, page |-> 0, limit |-> 0, order |-> "", id |-> ""]

\* authenticator.keyuri(accountName, issuer, secret), the content of the QR code
NoKeyUri == [account |-> "", issuer |-> "", secret |-> <<>>]
keyuri(account, issuer, secret) == [account |-> account, issuer |-> issuer, secret |-> secret]

\* a row of table messages, and the pagination block of POST /messages
NoMessage ==
  [id |-> 0, userId |-> 0, message |-> "", signature |-> MalformedSig, signer |-> "",
   valid |-> FALSE, createdAt |-> 0]
NoPagination ==
  [page |-> 0, limit |-> 0, totalCount |-> 0, totalPages |-> 0,
   hasNextPage |-> FALSE, hasPrevPage |-> FALSE]

NoResponse ==
  [status |-> 0, success |-> FALSE, error |-> "", keys |-> {},
   mfa |-> FALSE, mfa_bonus_phrase |-> NoPhrase, user |-> NoUser, messages |-> <<>>,
   message |-> "", qrCode |-> NoKeyUri, isValid |-> FALSE, signer |-> "",
   originalMessage |-> "", named |-> "", results |-> <<>>, totalVerified |-> 0,
   found |-> NoMessage, pagination |-> NoPagination, bodyStatus |-> 0]

\* variant: the body carries no status
ErrorResponse_noBodyStatus(status, error) ==
  [NoResponse EXCEPT !.status = status, !.error = error,
                     !.keys = {"error", "success"}]

\* res.status(status).json({ error, status, success: false }); status is the
\* HTTP status and bodyStatus the status field of the body
ErrorResponse(status, error) ==
  [NoResponse EXCEPT !.status = status, !.bodyStatus = status, !.error = error,
                     !.keys = {"error", "status", "success"}]

\* a request: the handler's locals, and six history fields: loaded (the
\* session as it was read), clock (the reading of Date.now()), recovered
\* (whether address recovery ran), verified (whether verifySignature ran),
\* examined (the number of items of a batch the loop looked at) and created
\* (whether the handler has inserted a user row)
IdleRequest ==
  [op |-> "none", pc |-> "idle", sid |-> "s1", body |-> NoBody,
   session |-> EmptySession, user |-> NoUser, bonusPhrase |-> NoPhrase,
   mfaTimeout |-> NullTime, resp |-> NoResponse, attempt |-> 0,
   prev |-> NoResponse, loaded |-> EmptySession, clock |-> NullTime,
   recovered |-> FALSE, verified |-> FALSE, verificationResults |-> <<>>,
   examined |-> 0, totalCount |-> 0, parsed |-> [page |-> 0, limit |-> 0],
   created |-> FALSE]

(* ----------------------------- state ---------------------------------- *)

VARIABLES
  now,          \* Date.now(), in milliseconds
  users,        \* table users: row i has id i
  auth,         \* table auth: row i belongs to user i
  messages,     \* table messages, in creation order
  sessions,     \* the session store: session id -> session data
  window,       \* authenticator.options.window, global to the process
  phrases,      \* number of random bonus phrases drawn so far
  req           \* the requests in flight and their responses

vars == <<now, users, auth, messages, sessions, window, phrases, req>>

Init ==
  /\ now = 0
  /\ users = <<>>
  /\ auth = <<>>
  /\ messages = <<>>
  /\ sessions = [s \in Sessions |-> EmptySession]
  /\ window = DefaultWindow
  /\ phrases = 0
  /\ req = [r \in Slots |-> IdleRequest]

(* --------------------------- data access ------------------------------ *)

\* messages: { take: 10, orderBy: { createdAt: 'desc' } } of one user
RECURSIVE UserMessagesDesc(_, _)
UserMessagesDesc(uid, i) ==
  IF i = 0 THEN <<>>
  ELSE IF messages[i].userId = uid
       THEN <<messages[i]>> \o UserMessagesDesc(uid, i - 1)
       ELSE UserMessagesDesc(uid, i - 1)

\* variant: no limit on the number of rows
Take_noLimit(seq, n) == seq

Take(seq, n) == IF Len(seq) <= n THEN seq ELSE SubSeq(seq, 1, n)

RecentMessages(uid) == Take(UserMessagesDesc(uid, Len(messages)), RecentTake)

UserRow(i) == [users[i] EXCEPT !.auth = auth[i], !.messages = RecentMessages(i)]

\* variant: the first row, whatever its address
findUniqueByAddress_anyRow(address) ==
  IF Len(users) > 0 THEN UserRow(1) ELSE NoUser

\* prisma.user.findUnique({ where: { address } })
findUniqueByAddress(address) ==
  IF \E i \in 1..Len(users) : users[i].address = address
  THEN UserRow(CHOOSE i \in 1..Len(users) : users[i].address = address)
  ELSE NoUser

\* prisma.user.findUnique({ where: { id } })
findUniqueById(id) ==
  IF id \in 1..Len(users) THEN UserRow(id) ELSE NoUser

NewUser(address) ==
  [id |-> Len(users) + 1, address |-> address, role |-> "user",
   auth |-> NoAuth, messages |-> <<>>]

\* express-session: the request works on its own copy of the stored data
LoadSession(s) == sessions[s]
SaveSession(data) == [data EXCEPT !.stored = TRUE]

Idle(r) == req[r].pc = "idle"
AllIdle == \A r \in Slots : req[r].pc \in {"idle"}

\* a request may start in slot r while the other slot is free or holds a
\* request of one of the operations in `with`; a request that overlaps with
\* none takes slot 1
MayStart(r, with) ==
  /\ Idle(r)
  /\ \A o \in Slots \ {r} : Idle(o) \/ req[o].op \in with
  /\ with = {} => r = 1

Started(op, s, body, pc) ==
  [IdleRequest EXCEPT !.op = op, !.pc = pc, !.sid = s, !.body = body,
                      !.session = LoadSession(s), !.loaded = LoadSession(s),
                      !.attempt = 1]

Respond(q, resp) == [q EXCEPT !.pc = "done", !.resp = resp]

(* ------------------------------ Login --------------------------------- *)

LoginBodies(AA) ==
  {[NoBody EXCEPT !.message = m, !.signature = g, !.address = a] :
     m \in {"login", "hello"}, g \in Signatures, a \in AA}

\* variant: the signature is checked before the message
LoginEntry_signatureFirst(q) ==
  IF q.body.absent \cap {"message", "signature", "address"} # {}
  THEN Respond(q, ErrorResponse(500, "Login failed"))
  ELSE IF ~verifySignature(q.body.message, q.body.signature, q.body.address)
  THEN Respond([q EXCEPT !.recovered = TRUE, !.verified = TRUE], ErrorResponse(401, "Invalid signature"))
  ELSE IF q.body.message # "login"
  THEN Respond([q EXCEPT !.recovered = TRUE, !.verified = TRUE], ErrorResponse(400, "Invalid login message"))
  ELSE [q EXCEPT !.pc = "login_find", !.recovered = TRUE, !.verified = TRUE]

\* auth.ts 62-87: LoginSchema.parse, whose error the catch block (196-203)
\* answers; then the message check, then the signature check
LoginEntry(q) ==
  IF q.body.absent \cap {"message", "signature", "address"} # {}
  THEN Respond(q, ErrorResponse(500, "Login failed"))
  ELSE IF q.body.message # "login"
  THEN Respond(q, ErrorResponse(400, "Invalid login message"))
  ELSE IF ~verifySignature(q.body.message, q.body.signature, q.body.address)
  THEN Respond([q EXCEPT !.recovered = TRUE, !.verified = TRUE], ErrorResponse(401, "Invalid signature"))
  ELSE [q EXCEPT !.pc = "login_find", !.recovered = TRUE, !.verified = TRUE]

\* Logins that may still draw a bonus phrase
LoginsSearching ==
  Cardinality({r \in Slots : req[r].pc \in {"login_find", "login_create"}})

LoginStart(r, s, body, with) ==
  /\ MayStart(r, with)
  /\ LoginEntry(Started("login", s, body, "start")).pc = "login_find"
       => phrases + LoginsSearching < MaxPhrases
  /\ req' = [req EXCEPT ![r] = LoginEntry(Started("login", s, body, "start"))]
  /\ UNCHANGED <<now, users, auth, messages, sessions, window, phrases>>

\* variant: the MFA branch also writes userId and address
LoginBranch_authenticates(q, user) ==
  IF user.auth.mfa
  THEN [q EXCEPT !.user = user, !.pc = "login_update", !.clock = now,
                 !.bonusPhrase = generateBonusPhrase(phrases + 1),
                 !.mfaTimeout = now + MfaTimeoutMs,
                 !.session.userId = user.id, !.session.address = user.address]
  ELSE [q EXCEPT !.user = user, !.pc = "login_save",
                 !.session.userId = user.id, !.session.address = user.address]

\* auth.ts 125-128 and 161-163: what Login does with the user it holds
LoginBranch(q, user) ==
  IF user.auth.mfa
  THEN [q EXCEPT !.user = user, !.pc = "login_update", !.clock = now,
                 !.bonusPhrase = generateBonusPhrase(phrases + 1),
                 !.mfaTimeout = now + MfaTimeoutMs]
  ELSE [q EXCEPT !.user = user, !.pc = "login_save",
                 !.session.userId = user.id, !.session.address = user.address]

\* auth.ts 89-102
LoginFind(r) ==
  /\ req[r].pc = "login_find"
  /\ LET user == findUniqueByAddress(toLowerCase(req[r].body.address))
     IN IF user = NoUser
        THEN /\ req' = [req EXCEPT ![r].pc = "login_create"]
             /\ UNCHANGED phrases
        ELSE /\ req' = [req EXCEPT ![r] = LoginBranch(req[r], user)]
             /\ phrases' = IF user.auth.mfa THEN phrases + 1 ELSE phrases
  /\ UNCHANGED <<now, users, auth, messages, sessions, window>>

\* auth.ts 104-123: the unique index on users.address rejects a second row
LoginCreate(r) ==
  /\ req[r].pc = "login_create"
  /\ LET address == toLowerCase(req[r].body.address)
     IN IF findUniqueByAddress(address) # NoUser
        THEN /\ req' = [req EXCEPT ![r] = Respond(req[r], ErrorResponse(500, "Login failed"))]
             /\ UNCHANGED <<users, auth>>
        ELSE /\ users' = Append(users, NewUser(address))
             /\ auth' = Append(auth, NoAuth)
             /\ req' = [req EXCEPT ![r] = LoginBranch([req[r] EXCEPT !.created = TRUE],
                                                      NewUser(address))]
  /\ UNCHANGED <<now, messages, sessions, window, phrases>>

\* auth.ts 130-140
LoginUpdate(r) ==
  /\ req[r].pc = "login_update"
  /\ auth' = [auth EXCEPT ![req[r].user.id].mfaTimeoutTimestamp = req[r].mfaTimeout]
  /\ req' = [req EXCEPT ![r].pc = "login_save",
                        ![r].session.pendingUserId = req[r].user.id,
                        ![r].session.mfaBonusPhrase = req[r].bonusPhrase,
                        ![r].session.pendingAt = req[r].clock]
  /\ UNCHANGED <<now, users, messages, sessions, window, phrases>>

UserView(user) == [user EXCEPT !.auth = NoAuth, !.messages = <<>>]

LoginResponse(q) ==
  IF q.user.auth.mfa
  THEN [NoResponse EXCEPT !.status = 200, !.success = TRUE, !.mfa = TRUE,
                          !.mfa_bonus_phrase = q.bonusPhrase,
                          !.keys = {"success", "mfa", "mfa_bonus_phrase"}]
  ELSE [NoResponse EXCEPT !.status = 200, !.success = TRUE, !.mfa = FALSE,
                          !.user = UserView(q.user), !.messages = q.user.messages,
                          !.keys = {"success", "mfa", "user", "messages"}]

\* variant: the response does not wait for the outcome of the save
LoginSave_answersAtOnce(r, saved) ==
  /\ req[r].pc = "login_save"
  /\ sessions' = IF saved THEN [sessions EXCEPT ![req[r].sid] = SaveSession(req[r].session)]
                  ELSE sessions
  /\ req' = [req EXCEPT ![r] = Respond(req[r], LoginResponse(req[r]))]
  /\ UNCHANGED <<now, users, auth, messages, window, phrases>>

\* auth.ts 140-158 and 166-195: req.session.save, then the response
LoginSave(r, saved) ==
  /\ req[r].pc = "login_save"
  /\ IF saved
     THEN /\ sessions' = [sessions EXCEPT ![req[r].sid] = SaveSession(req[r].session)]
          /\ req' = [req EXCEPT ![r] = Respond(req[r], LoginResponse(req[r]))]
     ELSE /\ UNCHANGED sessions
          /\ req' = [req EXCEPT ![r] = Respond(req[r], ErrorResponse(500, "Failed to save session"))]
  /\ UNCHANGED <<now, users, auth, messages, window, phrases>>

(* ------------------------------ Logout -------------------------------- *)

\* auth.ts 256-258: req.session.destroy is asynchronous
LogoutStart(r, s, with) ==
  /\ MayStart(r, with)
  /\ req' = [req EXCEPT ![r] = Started("logout", s, NoBody, "logout_destroy")]
  /\ UNCHANGED <<now, users, auth, messages, sessions, window, phrases>>

MessageResponse(message) ==
  [NoResponse EXCEPT !.status = 200, !.success = TRUE, !.message = message,
                     !.keys = {"success", "message"}]

\* variant: the answer is given but the stored session stays
LogoutDestroy_keepsSession(r, destroyed) ==
  /\ req[r].pc = "logout_destroy"
  /\ req' = [req EXCEPT ![r] = Respond(req[r], MessageResponse("Logged out successfully"))]
  /\ UNCHANGED <<now, users, auth, messages, sessions, window, phrases>>

\* auth.ts 258-272: the callback of req.session.destroy, with or without an
\* error of the store
LogoutDestroy(r, destroyed) ==
  /\ req[r].pc = "logout_destroy"
  /\ IF destroyed
     THEN /\ sessions' = [sessions EXCEPT ![req[r].sid] = EmptySession]
          /\ req' = [req EXCEPT ![r] = Respond(req[r], MessageResponse("Logged out successfully"))]
     ELSE /\ UNCHANGED sessions
          /\ req' = [req EXCEPT ![r] = Respond(req[r], ErrorResponse(500, "Logout failed"))]
  /\ UNCHANGED <<now, users, auth, messages, window, phrases>>

(* ---------------------------- requireAuth ----------------------------- *)

\* variant: a pending login passes as well
requireAuth_pendingPasses(q, pc) ==
  IF q.session.userId = 0 /\ q.session.pendingUserId = 0
  THEN Respond(q, ErrorResponse(401, "Authentication required"))
  ELSE [q EXCEPT !.pc = pc]

\* variant: any stored session passes
requireAuth_anySession(q, pc) ==
  IF ~q.session.stored
  THEN Respond(q, ErrorResponse(401, "Authentication required"))
  ELSE [q EXCEPT !.pc = pc]

\* middleware/auth.ts 5-16
requireAuth(q, pc) ==
  IF q.session.userId = 0
  THEN Respond(q, ErrorResponse(401, "Authentication required"))
  ELSE [q EXCEPT !.pc = pc]

(* -------------------------- GetCurrentUser ---------------------------- *)

GetUserStart(r, s, with) ==
  /\ MayStart(r, with)
  /\ req' = [req EXCEPT ![r] = requireAuth(Started("me", s, NoBody, "start"), "me_find")]
  /\ UNCHANGED <<now, users, auth, messages, sessions, window, phrases>>

UserViewMfa(user) ==
  [user EXCEPT !.auth = [NoAuth EXCEPT !.mfa = user.auth.mfa], !.messages = <<>>]

UserResponse(user) ==
  [NoResponse EXCEPT !.status = 200, !.success = TRUE,
                     !.user = UserViewMfa(user), !.messages = user.messages,
                     !.keys = {"success", "user", "messages"}]

\* auth.ts 207-254
GetUserResult(q, user) ==
  IF user = NoUser
  THEN Respond(q, ErrorResponse(404, "User not found"))
  ELSE Respond(q, UserResponse(user))

GetUserFind(r) ==
  /\ req[r].pc = "me_find"
  /\ req' = [req EXCEPT ![r] = GetUserResult(req[r], findUniqueById(req[r].session.userId))]
  /\ UNCHANGED <<now, users, auth, messages, sessions, window, phrases>>

(* ----------------------- InitializeMfaEnrollment ---------------------- *)

InitBodies ==
  {[NoBody EXCEPT !.message = m, !.signature = g] :
     m \in {"enableMFA", "hello"}, g \in Signatures}

\* variant: any message is taken
InitEntry_anyMessage(q) ==
  IF q.pc = "done" THEN q ELSE [q EXCEPT !.pc = "init_find"]

\* auth.ts 276-287
InitEntry(q) ==
  IF q.pc = "done" THEN q
  ELSE IF q.body.message # "enableMFA"
  THEN Respond(q, ErrorResponse(400, "Invalid MFA enablement message"))
  ELSE [q EXCEPT !.pc = "init_find"]

InitStart(r, s, body, with) ==
  /\ MayStart(r, with)
  /\ req' = [req EXCEPT ![r] = InitEntry(requireAuth(Started("init", s, body, "start"), "start"))]
  /\ UNCHANGED <<now, users, auth, messages, sessions, window, phrases>>

\* auth.ts 289-331
InitResult(q, user) ==
  IF user = NoUser
  THEN Respond(q, ErrorResponse(404, "User not found"))
  ELSE IF ~verifySignature(q.body.message, q.body.signature, user.address)
  THEN Respond([q EXCEPT !.recovered = TRUE, !.verified = TRUE], ErrorResponse(401, "Invalid signature"))
  ELSE [q EXCEPT !.user = user, !.pc = "init_update", !.recovered = TRUE, !.verified = TRUE]

InitFind(r) ==
  /\ req[r].pc = "init_find"
  /\ req' = [req EXCEPT ![r] = InitResult(req[r], findUniqueById(req[r].session.userId))]
  /\ UNCHANGED <<now, users, auth, messages, sessions, window, phrases>>

InitResponse(user) ==
  [NoResponse EXCEPT !.status = 200, !.success = TRUE,
                     !.qrCode = keyuri(user.address, "CAT Web3Signer", generateMFASecret(user.address)),
                     !.keys = {"success", "qrCode"}]

\* variant: a new enrollment switches mfa off until it is completed
InitUpdate_resets(r) ==
  /\ req[r].pc = "init_update"
  /\ auth' = [auth EXCEPT ![req[r].user.id].awaitingMfa = TRUE,
                          ![req[r].user.id].mfa = FALSE]
  /\ req' = [req EXCEPT ![r] = Respond(req[r], InitResponse(req[r].user))]
  /\ UNCHANGED <<now, users, messages, sessions, window, phrases>>

\* auth.ts 333-342
InitUpdate(r) ==
  /\ req[r].pc = "init_update"
  /\ auth' = [auth EXCEPT ![req[r].user.id].awaitingMfa = TRUE]
  /\ req' = [req EXCEPT ![r] = Respond(req[r], InitResponse(req[r].user))]
  /\ UNCHANGED <<now, users, messages, sessions, window, phrases>>

(* ----------------------- CompleteMfaEnrollment ------------------------ *)

\* the codes a client may type: of the secrets of the wallets WW, of the
\* current time step or up to maxAge steps older, or no code of any secret
CodeInputs(WW, maxAge) ==
  {TotpToken(generateMFASecret(w), TotpStep(now) - d) : w \in WW, d \in 0..maxAge}
    \cup {GarbageToken}

\* auth.ts 354-356
VerifyEntry(q) == requireAuth(q, "verify_find")

VerifyStart(r, s, code, with) ==
  /\ MayStart(r, with)
  /\ req' = [req EXCEPT ![r] =
               VerifyEntry(Started("verify", s, [NoBody EXCEPT !.mfa_code = code], "start"))]
  /\ UNCHANGED <<now, users, auth, messages, sessions, window, phrases>>

\* variant: the code is not checked
VerifyResult_anyCode(q, user) ==
  IF user = NoUser
  THEN Respond(q, ErrorResponse(404, "User not found"))
  ELSE IF ~user.auth.awaitingMfa
  THEN Respond(q, ErrorResponse(400, "MFA setup not initiated"))
  ELSE [q EXCEPT !.user = user, !.pc = "verify_update"]

\* auth.ts 358-393
VerifyResult(q, user) ==
  IF user = NoUser
  THEN Respond(q, ErrorResponse(404, "User not found"))
  ELSE IF ~user.auth.awaitingMfa
  THEN Respond(q, ErrorResponse(400, "MFA setup not initiated"))
  ELSE IF ~authenticatorVerify(q.body.mfa_code, generateMFASecret(user.address), window, now)
  THEN Respond(q, ErrorResponse(401, "Invalid MFA code"))
  ELSE [q EXCEPT !.user = user, !.pc = "verify_update"]

VerifyFind(r) ==
  /\ req[r].pc = "verify_find"
  /\ req' = [req EXCEPT ![r] = VerifyResult(req[r], findUniqueById(req[r].session.userId))]
  /\ UNCHANGED <<now, users, auth, messages, sessions, window, phrases>>

\* variant: mfa is switched on but the enrollment stays open
VerifyUpdate_keepsAwaiting(r) ==
  /\ req[r].pc = "verify_update"
  /\ auth' = [auth EXCEPT ![req[r].user.id].mfa = TRUE]
  /\ req' = [req EXCEPT ![r] = Respond(req[r], MessageResponse("MFA enabled successfully"))]
  /\ UNCHANGED <<now, users, messages, sessions, window, phrases>>

\* auth.ts 395-407
VerifyUpdate(r) ==
  /\ req[r].pc = "verify_update"
  /\ auth' = [auth EXCEPT ![req[r].user.id].mfa = TRUE,
                          ![req[r].user.id].awaitingMfa = FALSE]
  /\ req' = [req EXCEPT ![r] = Respond(req[r], MessageResponse("MFA enabled successfully"))]
  /\ UNCHANGED <<now, users, messages, sessions, window, phrases>>

(* -------------------------- CompleteMfaLogin -------------------------- *)

PhraseInputs == {generateBonusPhrase(n) : n \in 1..phrases} \cup {NoPhrase}

\* variant: the phrase is compared before the pending fields are looked for
MfaEntry_phraseFirst(q) ==
  IF q.body.mfa_bonus_phrase # q.session.mfaBonusPhrase
  THEN Respond(q, ErrorResponse(401, "Invalid bonus phrase"))
  ELSE IF q.session.pendingUserId = 0 \/ q.session.mfaBonusPhrase = NoPhrase
  THEN Respond(q, ErrorResponse(401, "No pending MFA authentication"))
  ELSE [q EXCEPT !.pc = "mfa_find"]

\* auth.ts 419-439
MfaEntry(q) ==
  IF q.session.pendingUserId = 0 \/ q.session.mfaBonusPhrase = NoPhrase
  THEN Respond(q, ErrorResponse(401, "No pending MFA authentication"))
  ELSE IF q.body.mfa_bonus_phrase # q.session.mfaBonusPhrase
  THEN Respond(q, ErrorResponse(401, "Invalid bonus phrase"))
  ELSE [q EXCEPT !.pc = "mfa_find"]

MfaStart(r, s, code, phrase, with) ==
  /\ MayStart(r, with)
  /\ req' = [req EXCEPT ![r] =
               MfaEntry(Started("mfa", s,
                                [NoBody EXCEPT !.mfa_code = code, !.mfa_bonus_phrase = phrase],
                                "start"))]
  /\ UNCHANGED <<now, users, auth, messages, sessions, window, phrases>>

\* the response is written once express-session has saved a changed session
Stage(q, resp) == [q EXCEPT !.pc = "mfa_save", !.resp = resp]

ClearPending(session) ==
  [session EXCEPT !.pendingUserId = 0, !.mfaBonusPhrase = NoPhrase, !.pendingAt = NullTime]

\* variant: the timeout is never looked at
MfaExpired_never(user) == FALSE

MfaExpired(user) ==
  /\ user.auth.mfaTimeoutTimestamp # NullTime
  /\ now > user.auth.mfaTimeoutTimestamp

\* variant: a wrong code ends the pending login
MfaResult_clearsOnBadCode(q, user) ==
  IF user = NoUser
  THEN Respond(q, ErrorResponse(404, "User not found"))
  ELSE IF MfaExpired(user)
  THEN Stage([q EXCEPT !.session = ClearPending(q.session)],
             ErrorResponse(401, "MFA window expired. Please login again."))
  ELSE IF ~authenticatorVerify(q.body.mfa_code, generateMFASecret(user.address), MfaLoginWindow, now)
  THEN Stage([q EXCEPT !.session = ClearPending(q.session)],
             ErrorResponse(401, "Invalid MFA code"))
  ELSE [q EXCEPT !.user = user, !.pc = "mfa_update",
                 !.session = [ClearPending(q.session) EXCEPT !.userId = user.id,
                                                             !.address = user.address]]

\* auth.ts 441-492
MfaResult(q, user) ==
  IF user = NoUser
  THEN Respond(q, ErrorResponse(404, "User not found"))
  ELSE IF MfaExpired(user)
  THEN Stage([q EXCEPT !.session = ClearPending(q.session)],
             ErrorResponse(401, "MFA window expired. Please login again."))
  ELSE IF ~authenticatorVerify(q.body.mfa_code, generateMFASecret(user.address), MfaLoginWindow, now)
  THEN Respond(q, ErrorResponse(401, "Invalid MFA code"))
  ELSE [q EXCEPT !.user = user, !.pc = "mfa_update",
                 !.session = [ClearPending(q.session) EXCEPT !.userId = user.id,
                                                             !.address = user.address]]

\* auth.ts 476: the window is set for the whole process once the code is checked
MfaWindowAfter(user) ==
  IF user = NoUser \/ MfaExpired(user) THEN window ELSE MfaLoginWindow

MfaFind(r) ==
  /\ req[r].pc = "mfa_find"
  /\ LET user == findUniqueById(req[r].session.pendingUserId)
     IN /\ req' = [req EXCEPT ![r] = MfaResult(req[r], user)]
        /\ window' = MfaWindowAfter(user)
  /\ UNCHANGED <<now, users, auth, messages, sessions, phrases>>

\* variant: the timeout stays in the auth row
MfaUpdate_keepsTimeout(r) ==
  /\ req[r].pc = "mfa_update"
  /\ req' = [req EXCEPT ![r] = Stage(req[r], UserResponse(req[r].user))]
  /\ UNCHANGED <<now, users, auth, messages, sessions, window, phrases>>

\* auth.ts 494-516
MfaUpdate(r) ==
  /\ req[r].pc = "mfa_update"
  /\ auth' = [auth EXCEPT ![req[r].user.id].mfaTimeoutTimestamp = NullTime]
  /\ req' = [req EXCEPT ![r] = Stage(req[r], UserResponse(req[r].user))]
  /\ UNCHANGED <<now, users, messages, sessions, window, phrases>>

\* auth.ts 494-498 and 517-524: the update is rejected (the row is gone, or
\* the database does not answer) after lines 489-492 have changed the session
MfaUpdateFails(r) ==
  /\ req[r].pc = "mfa_update"
  /\ req' = [req EXCEPT ![r] = Stage(req[r], ErrorResponse(500, "MFA authentication failed"))]
  /\ UNCHANGED <<now, users, auth, messages, sessions, window, phrases>>

\* express-session's end-of-response save of a session the handler changed
MfaSave(r) ==
  /\ req[r].pc = "mfa_save"
  /\ sessions' = [sessions EXCEPT ![req[r].sid] = SaveSession(req[r].session)]
  /\ req' = [req EXCEPT ![r].pc = "done"]
  /\ UNCHANGED <<now, users, auth, messages, window, phrases>>

(* -------------------------- verify-signature -------------------------- *)

SignatureBodies(MM, GG) ==
  {[NoBody EXCEPT !.message = m, !.signature = g] : m \in MM, g \in GG}

\* bodies that lack the message, the signature or both
IncompleteBodies(MM, GG) ==
  {[NoBody EXCEPT !.message = m, !.absent = {"signature"}] : m \in MM}
    \cup {[NoBody EXCEPT !.signature = g, !.absent = {"message"}] : g \in GG}
    \cup {[NoBody EXCEPT !.absent = {"message", "signature"}]}

SignatureResponse(message, signer, isValid) ==
  [NoResponse EXCEPT !.status = 200, !.success = TRUE, !.isValid = isValid,
                     !.signer = signer, !.originalMessage = message,
                     !.keys = {"success", "isValid", "signer", "originalMessage"}]

\* routes/signature.ts 12-15: z.object({ message: z.string(), signature: z.string() })
VerifySignatureSchema(body) == body.absent \cap {"message", "signature"} = {}

\* variant: the signature is verified against the address of the session
SignatureEntry_checksSession(q) ==
  LET rec == recoverAddress(q.body.message, q.body.signature)
  IN IF q.pc = "done" THEN q
     ELSE IF ~VerifySignatureSchema(q.body)
     THEN Respond(q, ErrorResponse(400, "Failed to verify signature"))
     ELSE IF ~rec.ok
     THEN Respond([q EXCEPT !.recovered = TRUE], ErrorResponse(400, "Failed to verify signature"))
     ELSE [q EXCEPT !.pc = "sig_create", !.recovered = TRUE, !.verified = TRUE,
                    !.resp = SignatureResponse(q.body.message, rec.address,
                               verifySignature(q.body.message, q.body.signature,
                                               q.session.address))]

\* routes/signature.ts 25-33 and 54-61
SignatureEntry(q) ==
  LET rec == recoverAddress(q.body.message, q.body.signature)
  IN IF q.pc = "done" THEN q
     ELSE IF ~VerifySignatureSchema(q.body)
     THEN Respond(q, ErrorResponse(400, "Failed to verify signature"))
     ELSE IF ~rec.ok
     THEN Respond([q EXCEPT !.recovered = TRUE], ErrorResponse(400, "Failed to verify signature"))
     ELSE [q EXCEPT !.pc = "sig_create", !.recovered = TRUE, !.verified = TRUE,
                    !.resp = SignatureResponse(q.body.message, rec.address,
                               verifySignature(q.body.message, q.body.signature, rec.address))]

SignatureStart(r, s, body, with) ==
  /\ MayStart(r, with)
  /\ Len(messages) < MaxMessages
  /\ req' = [req EXCEPT ![r] = SignatureEntry(requireAuth(Started("sig", s, body, "start"), "start"))]
  /\ UNCHANGED <<now, users, auth, messages, sessions, window, phrases>>

\* a row of table messages; createdAt is the position in the order of creation
NewMessage(q) ==
  [id |-> Len(messages) + 1, userId |-> q.session.userId, message |-> q.body.message,
   signature |-> q.body.signature, signer |-> q.resp.signer, valid |-> q.resp.isValid,
   createdAt |-> Len(messages) + 1]

\* routes/signature.ts 35-53: the foreign key messages.userId -> users.id
SignatureCreate(r) ==
  /\ req[r].pc = "sig_create"
  /\ IF req[r].session.userId \in 1..Len(users)
     THEN /\ messages' = Append(messages, NewMessage(req[r]))
          /\ req' = [req EXCEPT ![r].pc = "done"]
     ELSE /\ UNCHANGED messages
          /\ req' = [req EXCEPT ![r] = Respond(req[r], ErrorResponse(400, "Failed to verify signature"))]
  /\ UNCHANGED <<now, users, auth, sessions, window, phrases>>

(* ----------------------- verify-signature-multi ---------------------- *)

\* the arrays a client may send: up to MaxBatch items, each a message of MM
\* with a signature of GG
RECURSIVE BatchItems(_, _, _)
BatchItems(MM, GG, n) ==
  IF n = 0 THEN {<<>>}
  ELSE BatchItems(MM, GG, n - 1)
         \cup {Append(items, [message |-> m, signature |-> g]) :
                 items \in {b \in BatchItems(MM, GG, n - 1) : Len(b) = n - 1},
                 m \in MM, g \in GG}

\* the error of an item: the text before the colon, and the message it quotes
ItemError(error, message) == [ErrorResponse(400, error) EXCEPT !.named = message]

\* variant: a failing item is left out and the loop goes on
RECURSIVE BatchLoop_skipsFailures(_, _)
BatchLoop_skipsFailures(q, i) ==
  IF i > Len(q.body.items) THEN [q EXCEPT !.pc = "batch_create"]
  ELSE LET item == q.body.items[i]
           rec == recoverAddress(item.message, item.signature)
           seen == [q EXCEPT !.examined = i, !.recovered = TRUE]
       IN IF ~rec.ok
          THEN BatchLoop_skipsFailures(seen, i + 1)
          ELSE BatchLoop_skipsFailures(
                 [seen EXCEPT !.verified = TRUE,
                              !.verificationResults =
                                 Append(q.verificationResults,
                                        [message |-> item.message, signature |-> item.signature,
                                         signer |-> rec.address, valid |-> TRUE])],
                 i + 1)

\* routes/signature.ts 80-108: the loop over the items, from item i on
RECURSIVE BatchLoop(_, _)
BatchLoop(q, i) ==
  IF i > Len(q.body.items) THEN [q EXCEPT !.pc = "batch_create"]
  ELSE LET item == q.body.items[i]
           rec == recoverAddress(item.message, item.signature)
           seen == [q EXCEPT !.examined = i, !.recovered = TRUE]
       IN IF ~rec.ok
          THEN Respond(seen, ItemError("Failed to verify signature for message", item.message))
          ELSE IF ~verifySignature(item.message, item.signature, rec.address)
          THEN Respond([seen EXCEPT !.verified = TRUE],
                       ItemError("Invalid signature for message", item.message))
          ELSE BatchLoop(
                 [seen EXCEPT !.verified = TRUE,
                              !.verificationResults =
                                 Append(q.verificationResults,
                                        [message |-> item.message, signature |-> item.signature,
                                         signer |-> rec.address, valid |-> TRUE])],
                 i + 1)

\* routes/signature.ts 65-78
BatchEntry(q) ==
  IF q.pc = "done" THEN q
  ELSE IF Len(q.body.items) = 0
  THEN Respond(q, ErrorResponse(400, "No signatures provided"))
  ELSE BatchLoop(q, 1)

BatchStart(r, s, items, with) ==
  /\ MayStart(r, with)
  /\ Len(messages) + Len(items) <= MaxBatchRows
  /\ req' = [req EXCEPT ![r] =
               BatchEntry(requireAuth(Started("batch", s, [NoBody EXCEPT !.items = items],
                                              "start"), "start"))]
  /\ UNCHANGED <<now, users, auth, messages, sessions, window, phrases>>

\* the rows createMany inserts, in the order of the results
BatchRows(q) ==
  [j \in 1..Len(q.verificationResults) |->
     [id |-> Len(messages) + j, userId |-> q.session.userId,
      message |-> q.verificationResults[j].message,
      signature |-> q.verificationResults[j].signature,
      signer |-> q.verificationResults[j].signer,
      valid |-> q.verificationResults[j].valid,
      createdAt |-> Len(messages) + j]]

BatchResponse(q) ==
  [NoResponse EXCEPT
     !.status = 200, !.success = TRUE,
     !.results = [j \in 1..Len(q.verificationResults) |->
                    [isValid |-> q.verificationResults[j].valid,
                     signer |-> q.verificationResults[j].signer,
                     originalMessage |-> q.verificationResults[j].message]],
     !.totalVerified = Len(q.verificationResults),
     !.keys = {"success", "results", "totalVerified"}]

\* routes/signature.ts 110-141
BatchCreate(r) ==
  /\ req[r].pc = "batch_create"
  /\ IF req[r].session.userId \in 1..Len(users)
     THEN /\ messages' = messages \o BatchRows(req[r])
          /\ req' = [req EXCEPT ![r] = Respond(req[r], BatchResponse(req[r]))]
     ELSE /\ UNCHANGED messages
          /\ req' = [req EXCEPT ![r] = Respond(req[r], ErrorResponse(400, "Failed to verify signatures"))]
  /\ UNCHANGED <<now, users, auth, sessions, window, phrases>>

(* ----------------------------- /messages ----------------------------- *)

\* the rows of one user, oldest first; a deleted row stays in its place as
\* NoMessage so that ids are not given out twice
RECURSIVE UserMessagesAsc(_, _)
UserMessagesAsc(uid, i) ==
  IF i = 0 THEN <<>>
  ELSE IF messages[i].userId = uid
       THEN Append(UserMessagesAsc(uid, i - 1), messages[i])
       ELSE UserMessagesAsc(uid, i - 1)

\* findMany({ where: { userId }, skip, take, orderBy })
findManyMessages(uid, skip, take, order) ==
  LET rows == IF order = "asc" THEN UserMessagesAsc(uid, Len(messages))
                               ELSE UserMessagesDesc(uid, Len(messages))
  IN IF skip >= Len(rows) THEN <<>>
     ELSE SubSeq(rows, skip + 1, IF skip + take <= Len(rows) THEN skip + take ELSE Len(rows))

\* Math.ceil(totalCount / limit)
CeilDiv(a, b) == (a + b - 1) \div b

\* the bodies of POST /messages: page and limit as they were sent, or neither
ListBody(page, limit, order) ==
  [NoBody EXCEPT !.page = page, !.limit = limit, !.order = order]
ListBodies ==
  {ListBody(page, limit, order) :
     page \in (0 - 1)..2, limit \in {0, 1, 101}, order \in {"asc", "desc"}}
    \cup {[NoBody EXCEPT !.order = "desc", !.absent = {"page", "limit"}]}

\* routes/messages.ts 10-26: req.body.page || 1 and req.body.limit || 10, which
\* replace an absent value and 0 alike, then PaginationSchema.parse
PaginationParse(body) ==
  LET page == IF "page" \in body.absent \/ body.page = 0 THEN 1 ELSE body.page
      limit == IF "limit" \in body.absent \/ body.limit = 0 THEN 10 ELSE body.limit
  IN [ok |-> page >= 1 /\ limit >= 1 /\ limit <= 100, page |-> page, limit |-> limit]

\* routes/messages.ts 19-28 and 68-74
ListStart(r, s, body, with) ==
  /\ MayStart(r, with)
  /\ LET q == requireAuth(Started("list", s, body, "start"), "list_count")
         parsed == PaginationParse(body)
     IN req' = [req EXCEPT ![r] =
                  IF q.pc # "list_count" THEN q
                  ELSE IF ~parsed.ok
                  THEN Respond(q, ErrorResponse(500, "Failed to get messages"))
                  ELSE [q EXCEPT !.parsed = [page |-> parsed.page, limit |-> parsed.limit]]]
  /\ UNCHANGED <<now, users, auth, messages, sessions, window, phrases>>

\* routes/messages.ts 30-33
ListCount(r) ==
  /\ req[r].pc = "list_count"
  /\ req' = [req EXCEPT ![r].pc = "list_find",
                        ![r].totalCount = Len(UserMessagesAsc(req[r].session.userId,
                                                              Len(messages)))]
  /\ UNCHANGED <<now, users, auth, messages, sessions, window, phrases>>

\* routes/messages.ts 35-67
ListFind(r) ==
  /\ req[r].pc = "list_find"
  /\ LET q == req[r]
         totalPages == CeilDiv(q.totalCount, q.parsed.limit)
     IN req' = [req EXCEPT ![r] =
                  Respond(q, [NoResponse EXCEPT
                                !.status = 200, !.success = TRUE,
                                !.messages = findManyMessages(q.session.userId,
                                                              (q.parsed.page - 1) * q.parsed.limit,
                                                              q.parsed.limit, q.body.order),
                                !.pagination =
                                   [page |-> q.parsed.page, limit |-> q.parsed.limit,
                                    totalCount |-> q.totalCount, totalPages |-> totalPages,
                                    hasNextPage |-> q.parsed.page < totalPages,
                                    hasPrevPage |-> q.parsed.page > 1],
                                !.keys = {"success", "messages", "pagination"}])]
  /\ UNCHANGED <<now, users, auth, messages, sessions, window, phrases>>

\* parseInt(req.params.id): the leading digits, NaN when there are none
ParseInt(param) ==
  CASE param = "1" -> [nan |-> FALSE, value |-> 1]
    [] param = "2" -> [nan |-> FALSE, value |-> 2]
    [] param = "2x" -> [nan |-> FALSE, value |-> 2]
    [] param = "9" -> [nan |-> FALSE, value |-> 9]
    [] OTHER -> [nan |-> TRUE, value |-> 0]
IdParams == {"1", "2", "2x", "9", "abc"}

\* routes/messages.ts 78-89 and 130-141: GET and DELETE /messages/:id
MessageStart(r, s, op, param, with) ==
  /\ MayStart(r, with)
  /\ LET q == requireAuth(Started(op, s, [NoBody EXCEPT !.id = param], "start"), "message_find")
     IN req' = [req EXCEPT ![r] =
                  IF q.pc = "message_find" /\ ParseInt(param).nan
                  THEN Respond(q, ErrorResponse(400, "Invalid message ID"))
                  ELSE q]
  /\ UNCHANGED <<now, users, auth, messages, sessions, window, phrases>>

\* variant: the row is looked up by its id alone
findFirstMessage_anyOwner(id, uid) ==
  IF id \in 1..Len(messages) /\ messages[id] # NoMessage
  THEN messages[id] ELSE NoMessage

\* findFirst({ where: { id, userId } })
findFirstMessage(id, uid) ==
  IF id \in 1..Len(messages) /\ messages[id].userId = uid /\ messages[id] # NoMessage
  THEN messages[id] ELSE NoMessage

\* routes/messages.ts 91-118 and 143-157
MessageFind(r) ==
  /\ req[r].pc = "message_find"
  /\ LET q == req[r]
         message == findFirstMessage(ParseInt(q.body.id).value, q.session.userId)
     IN req' = [req EXCEPT ![r] =
                  IF message = NoMessage
                  THEN Respond(q, ErrorResponse(404, "Message not found"))
                  ELSE IF q.op = "get"
                  THEN Respond(q, [NoResponse EXCEPT !.status = 200, !.success = TRUE,
                                                     !.found = message,
                                                     !.keys = {"success", "message"}])
                  ELSE [q EXCEPT !.pc = "message_delete"]]
  /\ UNCHANGED <<now, users, auth, messages, sessions, window, phrases>>

\* routes/messages.ts 159-173: delete({ where: { id } }) throws when the row
\* is gone
MessageDelete(r) ==
  /\ req[r].pc = "message_delete"
  /\ LET id == ParseInt(req[r].body.id).value
     IN IF messages[id] # NoMessage
        THEN /\ messages' = [messages EXCEPT ![id] = NoMessage]
             /\ req' = [req EXCEPT ![r] =
                          Respond(req[r], MessageResponse("Message deleted successfully"))]
        ELSE /\ UNCHANGED messages
             /\ req' = [req EXCEPT ![r] =
                          Respond(req[r], ErrorResponse(500, "Failed to delete message"))]
  /\ UNCHANGED <<now, users, auth, sessions, window, phrases>>

(* ------------------------- double submission -------------------------- *)

\* MfaEntry.tsx 33-65: the code field submits by itself at six digits, and
\* the same code goes out again
Again(q, pc) ==
  [q EXCEPT !.pc = pc, !.session = LoadSession(q.sid), !.loaded = LoadSession(q.sid),
            !.attempt = 2, !.prev = q.resp, !.resp = NoResponse, !.user = NoUser]

Resubmit(r) ==
  /\ req[r].pc = "done"
  /\ req[r].attempt = 1
  /\ req[r].op \in {"mfa", "verify"}
  /\ req' = [req EXCEPT ![r] = IF req[r].op = "mfa"
                               THEN MfaEntry(Again(req[r], "start"))
                               ELSE VerifyEntry(Again(req[r], "start"))]
  /\ UNCHANGED <<now, users, auth, messages, sessions, window, phrases>>

(* --------------------------- environment ------------------------------ *)

\* the client reads the response; the slot is free again
Deliver(r) ==
  /\ req[r].pc = "done"
  /\ req' = [req EXCEPT ![r] = IdleRequest]
  /\ UNCHANGED <<now, users, auth, messages, sessions, window, phrases>>

Tick ==
  /\ now < MaxTicks * TickMs
  /\ now' = now + TickMs
  /\ UNCHANGED <<users, auth, messages, sessions, window, phrases, req>>

\* prisma/seed.ts 10-12: the rows are deleted behind the server's back,
\* while no request is in flight but GetCurrentUser; a deleted row keeps its
\* place, as ids are not given again
CleanRows ==
  /\ \A r \in Slots : Idle(r) \/ req[r].op = "me"
  /\ Len(users) < MaxUsers
  /\ \E i \in 1..Len(users) : users[i] # NoUser
  /\ users' = [i \in 1..Len(users) |-> NoUser]
  /\ auth' = [i \in 1..Len(auth) |-> NoAuth]
  /\ messages' = <<>>
  /\ UNCHANGED <<now, sessions, window, phrases, req>>

\* prisma/seed.ts 13
CleanSessions ==
  /\ \E s \in Sessions : sessions[s] # EmptySession
  /\ sessions' = [s \in Sessions |-> EmptySession]
  /\ UNCHANGED <<now, users, auth, messages, window, phrases, req>>

NoRowDeleted == \A i \in 1..Len(users) : users[i] # NoUser

LoginOps(SS, AA, saves, with) ==
  \/ \E r \in Slots, s \in SS, body \in LoginBodies(AA) : LoginStart(r, s, body, with)
  \/ \E r \in Slots : LoginFind(r)
  \/ \E r \in Slots : LoginCreate(r)
  \/ \E r \in Slots : LoginUpdate(r)
  \/ \E r \in Slots, saved \in saves : LoginSave(r, saved)

LogoutOps(SS, with) ==
  \/ \E r \in Slots, s \in SS : LogoutStart(r, s, with)
  \/ \E r \in Slots, destroyed \in BOOLEAN : LogoutDestroy(r, destroyed)

GetUserOps(SS, with) ==
  \/ \E r \in Slots, s \in SS : GetUserStart(r, s, with)
  \/ \E r \in Slots : GetUserFind(r)

InitOps(SS, with) ==
  \/ \E r \in Slots, s \in SS, body \in InitBodies : InitStart(r, s, body, with)
  \/ \E r \in Slots : InitFind(r)
  \/ \E r \in Slots : InitUpdate(r)

VerifyOps(SS, WW, maxAge, with) ==
  \/ \E r \in Slots, s \in SS, code \in CodeInputs(WW, maxAge) : VerifyStart(r, s, code, with)
  \/ \E r \in Slots : VerifyFind(r)
  \/ \E r \in Slots : VerifyUpdate(r)

MfaOps(SS, WW, maxAge, with) ==
  \/ \E r \in Slots, s \in SS, code \in CodeInputs(WW, maxAge), phrase \in PhraseInputs :
       MfaStart(r, s, code, phrase, with)
  \/ \E r \in Slots : MfaFind(r)
  \/ \E r \in Slots : MfaUpdate(r)
  \/ \E r \in Slots : MfaSave(r)

SignatureOps(SS, MM, GG, with) ==
  \/ \E r \in Slots, s \in SS, body \in SignatureBodies(MM, GG) :
       SignatureStart(r, s, body, with)
  \/ \E r \in Slots : SignatureCreate(r)

\* one client, one wallet's account, one request at a time
Next ==
  \/ LoginOps({"s1"}, {"0xAa", "0xaa"}, BOOLEAN, {})
  \/ LogoutOps({"s1"}, {})
  \/ GetUserOps({"s1"}, {})
  \/ InitOps({"s1"}, {})
  \/ VerifyOps({"s1"}, Wallets, MaxCodeAge, {})
  \/ MfaOps({"s1"}, Wallets, MaxCodeAge, {})
  \/ \E r \in Slots : Resubmit(r)
  \/ \E r \in Slots : Deliver(r)
  \/ Tick

Spec == Init /\ [][Next]_vars

\* two clients of the same account, one request at a time, over a session
\* store whose writes succeed
NextTwo ==
  \/ LoginOps({"s1", "s2"}, {"0xaa"}, {TRUE}, {})
  \/ InitOps({"s1"}, {})
  \/ VerifyOps({"s1"}, {"0xAa"}, 0, {})
  \/ MfaOps({"s1", "s2"}, {"0xAa"}, MaxCodeAge, {})
  \/ \E r \in Slots : Deliver(r)
  \/ Tick

SpecTwo == Init /\ [][NextTwo]_vars

\* Logins of one address that overlap
NextRaceLogin ==
  \/ LoginOps({"s1", "s2"}, {"0xAa", "0xaa"}, {TRUE}, {"login"})
  \/ InitOps({"s1"}, {})
  \/ VerifyOps({"s1"}, {"0xAa"}, 0, {})
  \/ \E r \in Slots : Deliver(r)

SpecRaceLogin == Init /\ [][NextRaceLogin]_vars

\* CompleteMfaLogin requests of one client that overlap
NextRaceMfa ==
  \/ LoginOps({"s1"}, {"0xaa"}, {TRUE}, {})
  \/ LogoutOps({"s1"}, {})
  \/ InitOps({"s1"}, {})
  \/ VerifyOps({"s1"}, {"0xAa"}, 0, {})
  \/ MfaOps({"s1"}, {"0xAa"}, 0, {"mfa"})
  \/ \E r \in Slots : Deliver(r)
  \/ Tick

SpecRaceMfa == Init /\ [][NextRaceMfa]_vars

\* one client that logs in and records signed messages
NextLogin ==
  \/ LoginOps({"s1"}, {"0xAa", "0xaa"}, BOOLEAN, {})
  \/ LogoutOps({"s1"}, {})
  \/ InitOps({"s1"}, {})
  \/ VerifyOps({"s1"}, {"0xAa"}, 0, {})
  \/ SignatureOps({"s1"}, {"hello"}, {Sig("0xBb", "hello"), MalformedSig}, {})
  \/ \E r \in Slots, body \in IncompleteBodies({"hello"}, {Sig("0xBb", "hello")}) :
       SignatureStart(r, "s1", body, {})
  \/ \E r \in Slots, body \in LoginBodies({"0xAa"}),
        field \in {"message", "signature", "address"} :
       LoginStart(r, "s1", [body EXCEPT !.absent = {field}, ![field] = NoBody[field]], {})
  \/ \E r \in Slots : Deliver(r)

SpecLogin == Init /\ [][NextLogin]_vars

\* the Logins in flight are of different wallets, each in its own browser
DistinctLogins ==
  \A a, b \in Slots :
    (a # b /\ req[a].op = "login" /\ req[b].op = "login")
    => /\ toLowerCase(req[a].body.address) # toLowerCase(req[b].body.address)
       /\ req[a].sid # req[b].sid

\* Logins of different wallets that overlap
NextParallel ==
  \/ LoginOps({"s1", "s2"}, {"0xAa", "0xBb"}, {TRUE}, {"login"}) /\ DistinctLogins'
  \/ InitOps({"s1"}, {})
  \/ VerifyOps({"s1"}, {"0xAa"}, 0, {})
  \/ \E r \in Slots : Deliver(r)

SpecParallel == Init /\ [][NextParallel]_vars

\* one client with MFA that records signed messages and logs in again
NextMfaMessages ==
  \/ LoginOps({"s1"}, {"0xaa"}, {TRUE}, {})
  \/ LogoutOps({"s1"}, {})
  \/ InitOps({"s1"}, {})
  \/ VerifyOps({"s1"}, {"0xAa"}, 0, {})
  \/ MfaOps({"s1"}, {"0xAa"}, MfaLoginWindow, {})
  \/ SignatureOps({"s1"}, {"hello"}, {Sig("0xBb", "hello")}, {})
  \/ \E r \in Slots : Deliver(r)
  \/ Tick

SpecMfaMessages == Init /\ [][NextMfaMessages]_vars

\* two clients and two wallets' accounts, one request at a time
NextAccounts ==
  \/ LoginOps({"s1", "s2"}, {"0xAa", "0xBb"}, {TRUE}, {})
  \/ InitOps({"s1"}, {})
  \/ VerifyOps({"s1"}, {"0xAa", "0xBb"}, 0, {})
  \/ MfaOps({"s1", "s2"}, {"0xAa", "0xBb"}, 0, {})
  \/ \E r \in Slots : Deliver(r)

SpecAccounts == Init /\ [][NextAccounts]_vars

\* one client with MFA, and a database that may reject the update that ends
\* CompleteMfaLogin
NextMfaFault ==
  \/ LoginOps({"s1"}, {"0xaa"}, {TRUE}, {})
  \/ LogoutOps({"s1"}, {})
  \/ InitOps({"s1"}, {})
  \/ VerifyOps({"s1"}, {"0xAa"}, 0, {})
  \/ MfaOps({"s1"}, {"0xAa"}, MfaLoginWindow, {})
  \/ \E r \in Slots : MfaUpdateFails(r)
  \/ \E r \in Slots : Deliver(r)
  \/ Tick

SpecMfaFault == Init /\ [][NextMfaFault]_vars

\* one client, and the tables emptied behind the server's back
NextClean ==
  \/ LoginOps({"s1"}, {"0xaa"}, {TRUE}, {})
  \/ LogoutOps({"s1"}, {})
  \/ GetUserOps({"s1"}, {})
  \/ InitOps({"s1"}, {})
  \/ VerifyOps({"s1"}, {"0xAa"}, 0, {})
  \/ SignatureOps({"s1"}, {"hello"}, {Sig("0xBb", "hello")}, {}) /\ NoRowDeleted
  \/ CleanRows
  \/ CleanSessions
  \/ \E r \in Slots : Deliver(r)

SpecClean == Init /\ [][NextClean]_vars

MessagesOps(SS, with) ==
  \/ \E r \in Slots, s \in SS, body \in ListBodies : ListStart(r, s, body, with)
  \/ \E r \in Slots : ListCount(r)
  \/ \E r \in Slots : ListFind(r)
  \/ \E r \in Slots, s \in SS, op \in {"get", "delete"}, param \in IdParams :
       MessageStart(r, s, op, param, with)
  \/ \E r \in Slots : MessageFind(r)
  \/ \E r \in Slots : MessageDelete(r)

BatchOps(SS, MM, GG, with) ==
  \/ \E r \in Slots, s \in SS, items \in BatchItems(MM, GG, MaxBatch) :
       BatchStart(r, s, items, with)
  \/ \E r \in Slots : BatchCreate(r)

\* every route behind requireAuth, for one client that logs in, enrolls,
\* logs out and logs in again; the messages table stays within MaxBatchRows
NextGuard ==
  \/ LoginOps({"s1"}, {"0xAa"}, {TRUE}, {})
  \/ LogoutOps({"s1"}, {})
  \/ GetUserOps({"s1"}, {})
  \/ InitOps({"s1"}, {})
  \/ VerifyOps({"s1"}, {"0xAa"}, 0, {})
  \/ (SignatureOps({"s1"}, {"hello"},
                    {Sig("0xAa", "hello"), Sig("0xBb", "hello"), MalformedSig}, {})
        /\ Len(messages') <= MaxBatchRows)
  \/ BatchOps({"s1"}, {"hello"}, {Sig("0xAa", "hello"), MalformedSig}, {})
  \/ MessagesOps({"s1"}, {})
  \/ \E r \in Slots : Deliver(r)

SpecGuard == Init /\ [][NextGuard]_vars

\* two clients, each with its own wallet and browser, and their messages;
\* one request at a time
NextMessages ==
  \/ LoginOps({"s1"}, {"0xAa"}, {TRUE}, {})
  \/ LoginOps({"s2"}, {"0xBb"}, {TRUE}, {})
  \/ InitOps({"s1"}, {})
  \/ VerifyOps({"s1"}, {"0xAa"}, 0, {})
  \/ (SignatureOps({"s1", "s2"}, {"hello"}, {Sig("0xAa", "hello")}, {})
        /\ Len(messages') <= MaxBatchRows)
  \/ MessagesOps({"s1", "s2"}, {})
  \/ \E r \in Slots : Deliver(r)

SpecMessages == Init /\ [][NextMessages]_vars

\* batches of one authenticated client
NextBatch ==
  \/ LoginOps({"s1"}, {"0xAa"}, {TRUE}, {})
  \/ InitOps({"s1"}, {})
  \/ VerifyOps({"s1"}, {"0xAa"}, 0, {})
  \/ BatchOps({"s1"}, {"hello", "bye"}, {Sig("0xBb", "hello"), MalformedSig}, {})
  \/ \E r \in Slots : Deliver(r)

SpecBatch == Init /\ [][NextBatch]_vars

(* ------------- the utilities of utils/signature.ts, called alone ------- *)

RecoveryError == "Failed to recover address from signature"

UtilMessages == {"login", "enableMFA", "hello"}
UtilSignatures == {Sig(w, m) : w \in Wallets, m \in UtilMessages} \cup {MalformedSig}
UtilAddresses == Wallets \cup {toLowerCase(w) : w \in Wallets} \cup {StrangerAddress, ""}

\* a call and its arguments
UtilCall(fn, message, signature, address) ==
  [IdleRequest EXCEPT !.op = fn, !.pc = "call",
                      !.body = [NoBody EXCEPT !.message = message, !.signature = signature,
                                              !.address = address]]

UtilCalls ==
  {UtilCall("verifySignature", m, g, a) :
     m \in UtilMessages, g \in UtilSignatures, a \in UtilAddresses}
    \cup {UtilCall("recoverAddress", m, g, "") : m \in UtilMessages, g \in UtilSignatures}

SecretCalls == {UtilCall("generateMFASecret", "", MalformedSig, a) : a \in UtilAddresses}

InitUtils ==
  /\ now = 0
  /\ users = <<>>
  /\ auth = <<>>
  /\ messages = <<>>
  /\ sessions = [s \in Sessions |-> EmptySession]
  /\ window = DefaultWindow
  /\ phrases = 0
  /\ \/ \E call \in UtilCalls : req = [r \in Slots |-> IF r = 1 THEN call ELSE IdleRequest]
     \/ \E one \in SecretCalls, other \in SecretCalls :
          req = [r \in Slots |-> IF r = 1 THEN one ELSE other]

\* a promise that resolved with a value, and one that rejected with an error
Resolved == [NoResponse EXCEPT !.success = TRUE]
Rejected(error) == [NoResponse EXCEPT !.error = error]

VerifySignatureCall(r) ==
  /\ req[r].pc = "call"
  /\ req[r].op = "verifySignature"
  /\ LET res == verifySignatureResult(req[r].body.message, req[r].body.signature,
                                      req[r].body.address)
     IN req' = [req EXCEPT ![r] =
                  Respond(req[r], IF res.ok THEN [Resolved EXCEPT !.isValid = res.value]
                                            ELSE Rejected(RecoveryError))]
  /\ UNCHANGED <<now, users, auth, messages, sessions, window, phrases>>

RecoverAddressCall(r) ==
  /\ req[r].pc = "call"
  /\ req[r].op = "recoverAddress"
  /\ LET rec == recoverAddress(req[r].body.message, req[r].body.signature)
     IN req' = [req EXCEPT ![r] =
                  Respond(req[r], IF rec.ok THEN [Resolved EXCEPT !.signer = rec.address]
                                            ELSE Rejected(RecoveryError))]
  /\ UNCHANGED <<now, users, auth, messages, sessions, window, phrases>>

GenerateMFASecretCall(r) ==
  /\ req[r].pc = "call"
  /\ req[r].op = "generateMFASecret"
  /\ req' = [req EXCEPT ![r] =
               Respond(req[r], [Resolved EXCEPT !.qrCode.secret =
                                                  generateMFASecret(req[r].body.address)])]
  /\ UNCHANGED <<now, users, auth, messages, sessions, window, phrases>>

NextUtils ==
  \/ \E r \in Slots : GenerateMFASecretCall(r)
  \/ \E r \in Slots : VerifySignatureCall(r)
  \/ \E r \in Slots : RecoverAddressCall(r)

SpecUtils == InitUtils /\ [][NextUtils]_vars

(* ------------------------------ claims -------------------------------- *)

Done(r) == req[r].pc = "done"
HasAuthenticated(d) == d.userId # 0 \/ d.address # ""
HasPending(d) == d.pendingUserId # 0 \/ d.mfaBonusPhrase # NoPhrase

\* C1: no stored session holds the Authenticated fields (userId, address) and
\* the Pending fields (pendingUserId, mfaBonusPhrase) at the same time.
C1_NeverBoth ==
  \A s \in Sessions : ~(HasAuthenticated(sessions[s]) /\ HasPending(sessions[s]))

PendingFor(i) == \E s \in Sessions : sessions[s].pendingUserId = i
LoginSavingFor(i) ==
  \E r \in Slots :
    req[r].op = "login" /\ req[r].pc \in {"login_save", "done"} /\ req[r].user.id = i

\* C3: a user's mfaTimeoutTimestamp is non-null only while some session is
\* pending for that user (or the Login that set it has not been answered yet).
C3_TimeoutOnlyWhilePending ==
  \A i \in 1..Len(auth) :
    auth[i].mfaTimeoutTimestamp # NullTime => (PendingFor(i) \/ LoginSavingFor(i))

\* C4: when a CompleteMfaLogin or CompleteMfaEnrollment succeeded and the same
\* code, still inside the tolerance window, is submitted again on the same
\* session, the second call succeeds too.
C4_DoubleSubmitSucceeds ==
  \A r \in Slots :
    (/\ Done(r) /\ req[r].attempt = 2 /\ req[r].prev.status = 200
     /\ authenticatorVerify(req[r].body.mfa_code,
                            generateMFASecret(sessions[req[r].sid].address), window, now))
    => (req[r].resp.status = 200 /\ req[r].resp.success)

\* C7: a successful Login for an account with mfa = true leaves userId and
\* address as they were, stores pendingUserId and a newly drawn phrase of 32
\* hex characters, sets mfaTimeoutTimestamp to its clock reading plus 5
\* minutes, and answers {success, mfa: true, mfa_bonus_phrase} without user
\* or messages.
C7_MfaLoginOnlyPends ==
  \A r \in Slots :
    (/\ Done(r) /\ req[r].op = "login" /\ req[r].resp.success
     /\ req[r].user.id \in 1..Len(auth) /\ auth[req[r].user.id].mfa)
    => LET q == req[r]
           stored == sessions[q.sid]
       IN /\ stored.userId = q.loaded.userId
          /\ stored.address = q.loaded.address
          /\ stored.pendingUserId = q.user.id
          /\ stored.mfaBonusPhrase = q.resp.mfa_bonus_phrase
          /\ q.resp.mfa_bonus_phrase.length = 32
          /\ q.resp.mfa_bonus_phrase.nonce = phrases
          /\ q.resp.mfa_bonus_phrase # q.loaded.mfaBonusPhrase
          /\ q.clock \in 0..now
          /\ auth[q.user.id].mfaTimeoutTimestamp = q.clock + 300000
          /\ q.resp.status = 200
          /\ q.resp.mfa
          /\ q.resp.keys = {"success", "mfa", "mfa_bonus_phrase"}
          /\ q.resp.user = NoUser
          /\ q.resp.messages = <<>>

C7_Witness ==
  \E r \in Slots :
    /\ Done(r) /\ req[r].op = "login" /\ req[r].resp.success /\ req[r].resp.mfa
    /\ req[r].loaded.userId # 0
    /\ now > 0

SignatureMismatch(body) ==
  LET rec == recoverAddress(body.message, body.signature)
  IN ~rec.ok \/ toLowerCase(rec.address) # toLowerCase(body.address)

MfaChecks(r) == req[r].op = "mfa" /\ req[r].pc = "mfa_find" /\ req'[r].pc # "mfa_find"

\* C2: when CompleteMfaLogin checks a pending session more than 5 minutes
\* after the Login that made this session pending, it does not promote the
\* session: it answers "MFA window expired" and clears the pending fields,
\* whatever other sessions of the same account have done meanwhile.
C2_PromotionOnlyInsideWindow ==
  [][\A r \in Slots :
       (MfaChecks(r) /\ now > req[r].session.pendingAt + 300000)
       => (/\ req'[r].resp.status = 401
           /\ req'[r].resp.error = "MFA window expired. Please login again."
           /\ ~HasPending(req'[r].session)
           /\ req'[r].session.userId = req[r].session.userId)]_vars

SameSubmission(a, b) ==
  /\ req[a].op = "mfa" /\ req[b].op = "mfa"
  /\ req[a].sid = req[b].sid /\ req[a].body = req[b].body
  /\ req[a].loaded = req[b].loaded
  /\ HasPending(req[a].loaded)
  /\ req[a].body.mfa_bonus_phrase = req[a].loaded.mfaBonusPhrase

Defined4xx(resp) ==
  /\ resp.status \in {400, 401, 404} /\ ~resp.success /\ resp.error # ""

\* C5: two CompleteMfaLogin requests with the same valid code and phrase that
\* both read the same pending session: once both are answered and one of them
\* succeeded, the other succeeded or failed with a 4xx error, and the session
\* is Authenticated as the pending user, without pending fields, with the
\* account's mfaTimeoutTimestamp null.
C5_ConcurrentDoubleSubmit ==
  (/\ Done(1) /\ Done(2) /\ SameSubmission(1, 2)
   /\ \E r \in Slots : req[r].resp.status = 200)
  => LET uid == req[1].loaded.pendingUserId
     IN /\ \A r \in Slots : req[r].resp.status = 200 \/ Defined4xx(req[r].resp)
        /\ sessions[req[1].sid].userId = uid
        /\ sessions[req[1].sid].address = users[uid].address
        /\ ~HasPending(sessions[req[1].sid])
        /\ auth[uid].mfaTimeoutTimestamp = NullTime

\* C6: no Login with message "login" and a genuine signature is answered with
\* the 500 of the handler's catch block, and no address has two user rows.
C6_FindOrCreateNeverErrors ==
  /\ \A r \in Slots :
       (Done(r) /\ req[r].op = "login" /\ req[r].body.message = "login"
          /\ ~SignatureMismatch(req[r].body))
       => req[r].resp.error # "Login failed"
  /\ \A i, j \in 1..Len(users) : users[i].address = users[j].address => i = j
  /\ Len(auth) = Len(users)

MessagesOf(uid) == {messages[i] : i \in {k \in 1..Len(messages) : messages[k].userId = uid}}

\* ms is the 10 newest messages of user uid, or all of them if fewer, newest first
TenMostRecent(ms, uid) ==
  /\ Len(ms) = IF Cardinality(MessagesOf(uid)) < 10 THEN Cardinality(MessagesOf(uid)) ELSE 10
  /\ \A k \in 1..Len(ms) : ms[k] \in MessagesOf(uid)
  /\ \A k \in 1..(Len(ms) - 1) : ms[k].createdAt > ms[k + 1].createdAt
  /\ \A m \in MessagesOf(uid) :
       (\A k \in 1..Len(ms) : ms[k] # m) => (\A k \in 1..Len(ms) : m.createdAt < ms[k].createdAt)

GenuineLogin(r) ==
  /\ req[r].op = "login" /\ req[r].body.message = "login"
  /\ ~SignatureMismatch(req[r].body)

C8_Answered ==
  \A r \in Slots :
    (/\ Done(r) /\ GenuineLogin(r)
     /\ req[r].resp.error # "Failed to save session"
     /\ ~findUniqueByAddress(toLowerCase(req[r].body.address)).auth.mfa)
    => LET q == req[r]
           u == findUniqueByAddress(toLowerCase(q.body.address))
           stored == sessions[q.sid]
       IN /\ u # NoUser
          /\ u.role = "user"
          /\ stored.userId = u.id
          /\ stored.address = toLowerCase(q.body.address)
          /\ q.resp.status = 200
          /\ q.resp.success
          /\ ~q.resp.mfa
          /\ q.resp.keys = {"success", "mfa", "user", "messages"}
          /\ q.resp.user.id = u.id
          /\ q.resp.user.address = toLowerCase(q.body.address)
          /\ q.resp.user.role = "user"
          /\ TenMostRecent(q.resp.messages, u.id)

C8_Creates ==
  \A r \in Slots :
    (/\ req[r].pc = "login_create" /\ req'[r].pc # "login_create"
     /\ findUniqueByAddress(toLowerCase(req[r].body.address)) = NoUser)
    => (/\ Len(users') = Len(users) + 1
        /\ SubSeq(users', 1, Len(users)) = users
        /\ users'[Len(users')].id = Len(users')
        /\ users'[Len(users')].address = toLowerCase(req[r].body.address)
        /\ users'[Len(users')].role = "user"
        /\ auth' = Append(auth, [mfa |-> FALSE, awaitingMfa |-> FALSE,
                                 mfaTimeoutTimestamp |-> NullTime]))

\* C8: a Login with message "login" and a genuine signature, for an account
\* whose mfa flag is false, whose session save succeeds: the user of the
\* lower-cased address exists with role "user" (a missing one is created with
\* mfa = false, awaitingMfa = false), the session holds that user's id and
\* address, and the answer is {success, mfa: false, user, messages} with the
\* 10 newest messages of the user at most, newest first.
C8_PlainLoginAuthenticates == []C8_Answered /\ [][C8_Creates]_vars

C8_Witness ==
  \E r \in Slots :
    /\ Done(r) /\ GenuineLogin(r) /\ req[r].resp.success
    /\ req[r].body.address = "0xAa"
    /\ Len(req[r].resp.messages) = 10
    /\ Cardinality(MessagesOf(req[r].resp.user.id)) = 11

LoginArrives(r) == req[r].pc = "idle" /\ req'[r].op = "login"

LowerCaseAddresses == {"0xaa", "0xbb", "0xff"}
SameAccount(a, b) == a = b \/ {a, b} \in {{"0xAa", "0xaa"}, {"0xBb", "0xbb"}}
AnsweredLogin(r) == Done(r) /\ req[r].op = "login" /\ req[r].resp.success

\* C11: every stored user address is lower-case, no two user rows hold the
\* same address up to letter case, and every Login that succeeded, whatever
\* the letter case of the address it claimed, worked on the one row of that
\* address.
C11_OneUserPerAddress ==
  /\ \A i \in 1..Len(users) : users[i].address \in LowerCaseAddresses
  /\ \A i, j \in 1..Len(users) : SameAccount(users[i].address, users[j].address) => i = j
  /\ \A r \in Slots :
       AnsweredLogin(r)
       => /\ req[r].user.id \in 1..Len(users)
          /\ SameAccount(users[req[r].user.id].address, req[r].body.address)
          /\ \A i \in 1..Len(users) :
               SameAccount(users[i].address, req[r].body.address) => i = req[r].user.id

C11_Witness ==
  /\ AnsweredLogin(1) /\ AnsweredLogin(2)
  /\ req[1].body.address = "0xAa" /\ req[2].body.address = "0xaa"
  /\ req[1].user.id = req[2].user.id
  /\ Len(users) = 1

C12_Answered ==
  /\ \A r \in Slots :
       (Done(r) /\ GenuineLogin(r))
       => /\ req[r].resp.status = 200 /\ req[r].resp.success
          /\ req[r].user.id \in 1..Len(users)
          /\ users[req[r].user.id].address = toLowerCase(req[r].body.address)
  /\ \A i, j \in 1..Len(users) : users[i].address = users[j].address => i = j
  /\ \A i \in 1..Len(users) : users[i].id = i
  /\ Len(auth) = Len(users)

C12_Grows ==
  /\ Len(users') \in {Len(users), Len(users) + 1}
  /\ SubSeq(users', 1, Len(users)) = users
  /\ Len(users') > Len(users)
       => \E r \in Slots :
            /\ req[r].pc = "login_create"
            /\ findUniqueByAddress(toLowerCase(req[r].body.address)) = NoUser
            /\ users'[Len(users')].address = toLowerCase(req[r].body.address)
            /\ auth'[Len(users')] = NoAuth

\* C12: Logins with genuine signatures of different addresses that overlap
\* all succeed; each creation adds the row of its address with its own auth
\* row and keeps every row there was, and no address has two rows.
C12_ParallelLoginsAllSucceed == []C12_Answered /\ [][C12_Grows]_vars

\* the second Login created its row and was answered while the first, which
\* created its row before, is still saving its session
C12_Witness ==
  /\ req[1].op = "login" /\ req[1].pc = "login_save" /\ req[1].user.id = 1
  /\ AnsweredLogin(2) /\ req[2].user.id = 2
  /\ req[2].loaded = EmptySession
  /\ Len(users) = 2

LoginAnswers(r) == req[r].op = "login" /\ req[r].pc # "done" /\ req'[r].pc = "done"

\* C13: a Login is answered with success only in the step that leaves its
\* session written in the store, in the MFA branch and in the other; a Login
\* whose save failed is answered 500 "Failed to save session", and an answer
\* once given never turns into another.
C13_SuccessOnlyAfterSave ==
  [][\A r \in Slots :
       /\ (LoginAnswers(r) /\ req'[r].resp.success)
          => /\ req[r].pc = "login_save"
             /\ sessions'[req[r].sid] = SaveSession(req[r].session)
             /\ sessions'[req[r].sid].stored
       /\ (LoginAnswers(r) /\ req[r].pc = "login_save"
            /\ sessions'[req[r].sid] # SaveSession(req[r].session))
          => /\ req'[r].resp.status = 500
             /\ req'[r].resp.error = "Failed to save session"
             /\ ~req'[r].resp.success
             /\ sessions' = sessions
       /\ (Done(r) /\ req[r].op = "login")
          => (req'[r] = req[r] \/ req'[r] = IdleRequest)]_vars

C13_Witness ==
  \E r \in Slots :
    /\ Done(r) /\ req[r].op = "login"
    /\ req[r].resp.error = "Failed to save session"
    /\ req[r].session.pendingUserId # 0
    /\ sessions[req[r].sid].pendingUserId = 0

\* a CompleteMfaLogin request arrives: a first submission or the repeated one
MfaArrives(r) ==
  /\ req[r].pc \in {"idle", "done"}
  /\ req'[r].op = "mfa"
  /\ req'[r] # req[r]

BothPending(d) == d.pendingUserId # 0 /\ d.mfaBonusPhrase # NoPhrase

RetryErrors == {"Invalid bonus phrase", "Invalid MFA code"}

\* the CompleteMfaLogin a client sends next on session s: the stored phrase
\* and the code of the current time step
GoodRetry(s) ==
  Started("mfa", s,
          [NoBody EXCEPT !.mfa_bonus_phrase = sessions[s].mfaBonusPhrase,
                         !.mfa_code = TotpToken(generateMFASecret(users[sessions[s].pendingUserId].address),
                                                TotpStep(now))],
          "start")

\* a CompleteMfaLogin answered "Invalid bonus phrase" or "Invalid MFA code"
\* has left the stored session pending as it found it; while the timeout has
\* not passed, the retry with the stored phrase and a valid code passes
\* every check and promotes the session
C15_RetryPossible ==
  \A r \in Slots :
    (Done(r) /\ req[r].op = "mfa" /\ req[r].resp.error \in RetryErrors)
    => LET s == req[r].sid
           user == findUniqueById(sessions[s].pendingUserId)
       IN /\ req[r].resp.status = 401
          /\ sessions[s] = req[r].loaded
          /\ BothPending(sessions[s])
          /\ user # NoUser
          /\ ~MfaExpired(user)
               => /\ MfaEntry(GoodRetry(s)).pc = "mfa_find"
                  /\ MfaResult(MfaEntry(GoodRetry(s)), user).pc = "mfa_update"
                  /\ MfaResult(MfaEntry(GoodRetry(s)), user).session.userId = user.id
                  /\ ~HasPending(MfaResult(MfaEntry(GoodRetry(s)), user).session)

C15_Rejects ==
  \A r \in Slots :
    /\ (req[r].op = "mfa" /\ ~Done(r) /\ req'[r].op = "mfa" /\ req'[r].pc = "done"
         /\ req'[r].resp.error \in RetryErrors)
       => (sessions' = sessions /\ auth' = auth /\ req'[r].session = req[r].session)
    /\ (MfaArrives(r) /\ req'[r].resp.error \in RetryErrors)
       => (sessions' = sessions /\ auth' = auth /\ req'[r].session = req'[r].loaded)
    /\ (MfaArrives(r) /\ BothPending(sessions[req'[r].sid])
         /\ req'[r].body.mfa_bonus_phrase # sessions[req'[r].sid].mfaBonusPhrase)
       => (/\ req'[r].pc = "done"
           /\ req'[r].resp.status = 401
           /\ req'[r].resp.error = "Invalid bonus phrase")

ExpiredError == "MFA window expired. Please login again."

TimeoutPassed(i) ==
  /\ i \in 1..Len(auth)
  /\ auth[i].mfaTimeoutTimestamp # NullTime
  /\ auth[i].mfaTimeoutTimestamp < now

C16_Expires ==
  \A r \in Slots :
    /\ (MfaChecks(r) /\ TimeoutPassed(req[r].session.pendingUserId))
       => (/\ req'[r].pc = "mfa_save"
           /\ req'[r].resp.status = 401
           /\ req'[r].resp.error = ExpiredError
           /\ ~req'[r].resp.success
           /\ req'[r].session.pendingUserId = 0
           /\ req'[r].session.mfaBonusPhrase = NoPhrase
           /\ req'[r].session.userId = req[r].loaded.userId
           /\ req'[r].session.address = req[r].loaded.address
           /\ auth' = auth /\ users' = users)
    /\ (req[r].pc = "mfa_save" /\ req'[r].pc = "done" /\ req[r].resp.error = ExpiredError)
       => (/\ req'[r].resp = req[r].resp
           /\ sessions'[req[r].sid].pendingUserId = 0
           /\ sessions'[req[r].sid].mfaBonusPhrase = NoPhrase
           /\ sessions'[req[r].sid].userId = sessions[req[r].sid].userId
           /\ sessions'[req[r].sid].address = sessions[req[r].sid].address)

C16_ThenNoPending ==
  \A r \in Slots :
    (Done(r) /\ req[r].op = "mfa" /\ req[r].attempt = 2 /\ req[r].prev.error = ExpiredError)
    => (/\ req[r].resp.status = 401
        /\ req[r].resp.error = "No pending MFA authentication"
        /\ ~HasPending(sessions[req[r].sid]))

\* C16: a CompleteMfaLogin with the right phrase that finds the account's
\* mfaTimeoutTimestamp set and earlier than now is answered 401 "MFA window
\* expired", valid code or not; it deletes pendingUserId and mfaBonusPhrase,
\* leaves userId and address as they were, and the same submission sent
\* again is answered "No pending MFA authentication".
C16_ExpiredWindowRejected == []C16_ThenNoPending /\ [][C16_Expires]_vars

C16_Witness ==
  \E r \in Slots :
    /\ Done(r) /\ req[r].op = "mfa" /\ req[r].attempt = 2
    /\ req[r].prev.error = ExpiredError
    /\ req[r].body.mfa_code = TotpToken(generateMFASecret("0xAa"), TotpStep(now))
    /\ req[r].body.mfa_bonus_phrase # NoPhrase
    /\ sessions[req[r].sid].userId = 0

C17_Promoted ==
  \A r \in Slots :
    (Done(r) /\ req[r].op = "mfa" /\ req[r].resp.success)
    => LET q == req[r]
           uid == q.loaded.pendingUserId
           stored == sessions[q.sid]
       IN /\ uid \in 1..Len(users)
          /\ q.body.mfa_bonus_phrase = q.loaded.mfaBonusPhrase
          /\ stored.userId = uid
          /\ stored.address = users[uid].address
          /\ stored.pendingUserId = 0
          /\ stored.mfaBonusPhrase = NoPhrase
          /\ auth[uid].mfaTimeoutTimestamp = NullTime
          /\ q.resp.status = 200
          /\ q.resp.keys = {"success", "user", "messages"}
          /\ q.resp.user.id = uid
          /\ q.resp.user.address = users[uid].address
          /\ q.resp.user.role = users[uid].role
          /\ q.resp.user.auth.mfa = auth[uid].mfa
          /\ TenMostRecent(q.resp.messages, uid)

C17_Accepts ==
  \A r \in Slots :
    (/\ MfaChecks(r)
     /\ ~TimeoutPassed(req[r].session.pendingUserId)
     /\ \E d \in -2..2 :
          req[r].body.mfa_code
            = TotpToken(generateMFASecret(users[req[r].session.pendingUserId].address),
                        TotpStep(now) + d))
    => (/\ req'[r].pc = "mfa_update"
        /\ req'[r].session.userId = req[r].session.pendingUserId
        /\ ~HasPending(req'[r].session))

\* C17: a CompleteMfaLogin with the stored phrase and a code of the current
\* time step or of one at most two steps away, before the timeout, is
\* accepted; once answered, the session holds userId and address of the
\* pending user and no pending field, the account's mfaTimeoutTimestamp is
\* null, and the answer is {success, user, messages} with the 10 newest
\* messages of the user at most, newest first.
C17_MfaLoginPromotes == []C17_Promoted /\ [][C17_Accepts]_vars

C17_Witness ==
  \E r \in Slots :
    /\ Done(r) /\ req[r].op = "mfa" /\ req[r].resp.success
    /\ req[r].body.mfa_code = TotpToken(generateMFASecret("0xAa"), TotpStep(now) - 2)
    /\ req[r].loaded.userId = 0
    /\ Len(req[r].resp.messages) = 10
    /\ Cardinality(MessagesOf(req[r].resp.user.id)) = 11

\* a request of operation op arrives in slot r
Arrives(r, op) == req[r].pc = "idle" /\ req'[r].op = op

\* the operations behind requireAuth
GuardedOps == {"me", "init", "verify", "sig"}

C18_Logout ==
  \A r \in Slots :
    /\ Arrives(r, "logout") => req'[r].pc = "logout_destroy"
    /\ (req[r].pc = "logout_destroy" /\ req'[r].pc = "done")
       => /\ users' = users /\ auth' = auth
          /\ \/ /\ req'[r].resp.status = 200
                /\ req'[r].resp.success
                /\ req'[r].resp.message = "Logged out successfully"
                /\ sessions'[req[r].sid] = EmptySession
             \/ /\ req'[r].resp.status = 500
                /\ req'[r].resp.error = "Logout failed"
                /\ sessions' = sessions
    /\ (\E op \in GuardedOps : Arrives(r, op)) /\ sessions[req'[r].sid] = EmptySession
       => /\ req'[r].pc = "done"
          /\ req'[r].resp.status = 401
          /\ req'[r].resp.error = "Authentication required"
    /\ Arrives(r, "mfa") /\ sessions[req'[r].sid] = EmptySession
       => /\ req'[r].pc = "done"
          /\ req'[r].resp.status = 401
          /\ req'[r].resp.error = "No pending MFA authentication"

\* a session that a Logout answered with success stays destroyed until a
\* Login writes it again
C18_StaysDestroyed ==
  \A s \in Sessions :
    sessions[s] = EmptySession /\ sessions'[s] # EmptySession
    => \E r \in Slots : req[r].op = "login" /\ req[r].pc = "login_save" /\ req[r].sid = s

NoRow(id) == id \notin 1..Len(users) \/ users[id] = NoUser
NothingWritten ==
  sessions' = sessions /\ users' = users /\ auth' = auth /\ messages' = messages

\* C19: GetCurrentUser is answered 401 "Authentication required" when the
\* session has no userId, pending or not; 404 "User not found" when the
\* user row of the session's userId is gone; otherwise {success, user,
\* messages} with the user's id, address, role and mfa flag and the 10 newest
\* messages at most, newest first; and it writes no session, user, auth row
\* or message.
C19_GetCurrentUser ==
  [][\A r \in Slots :
       /\ Arrives(r, "me")
          => /\ NothingWritten
             /\ req'[r].session = sessions[req'[r].sid]
             /\ IF sessions[req'[r].sid].userId = 0
                THEN /\ req'[r].pc = "done"
                     /\ req'[r].resp.status = 401
                     /\ req'[r].resp.error = "Authentication required"
                     /\ ~req'[r].resp.success
                ELSE req'[r].pc = "me_find"
       /\ (req[r].op = "me" /\ req[r].pc = "me_find" /\ req'[r].pc = "done")
          => LET uid == req[r].session.userId
                 resp == req'[r].resp
             IN /\ NothingWritten
                /\ req'[r].session = req[r].session
                /\ IF NoRow(uid)
                   THEN /\ resp.status = 404
                        /\ resp.error = "User not found"
                        /\ ~resp.success
                   ELSE /\ resp.status = 200 /\ resp.success
                        /\ resp.keys = {"success", "user", "messages"}
                        /\ resp.user.id = uid
                        /\ resp.user.address = users[uid].address
                        /\ resp.user.role = users[uid].role
                        /\ resp.user.auth.mfa = auth[uid].mfa
                        /\ TenMostRecent(resp.messages, uid)]_vars

C19_Witness ==
  \E r \in Slots :
    /\ Done(r) /\ req[r].op = "me"
    /\ req[r].resp.status = 404
    /\ req[r].session.userId # 0
    /\ NoRow(req[r].session.userId)

\* the signature is one of wallet `address` over `message`
RecoversTo(message, signature, address) ==
  /\ signature # MalformedSig
  /\ signature.msg = message
  /\ SameAccount(signature.signer, address)

C20_SetsAwaiting ==
  \A i \in 1..Len(auth) :
    (i \in 1..Len(auth') /\ ~auth[i].awaitingMfa /\ auth'[i].awaitingMfa)
    => \E r \in Slots :
         /\ req[r].op = "init" /\ req[r].pc = "init_update"
         /\ req'[r].pc = "done" /\ req'[r].resp.success
         /\ req[r].loaded.userId = i
         /\ req[r].body.message = "enableMFA"
         /\ RecoversTo(req[r].body.message, req[r].body.signature, users[i].address)

C20_Rejects ==
  \A r \in Slots :
    /\ Arrives(r, "init")
       => /\ auth' = auth
          /\ IF sessions[req'[r].sid].userId = 0
             THEN /\ req'[r].pc = "done"
                  /\ req'[r].resp.status = 401
                  /\ req'[r].resp.error = "Authentication required"
             ELSE IF req'[r].body.message # "enableMFA"
             THEN /\ req'[r].pc = "done"
                  /\ req'[r].resp.status = 400
                  /\ req'[r].resp.error = "Invalid MFA enablement message"
                  /\ ~req'[r].recovered
             ELSE req'[r].pc = "init_find"
    /\ (req[r].op = "init" /\ req[r].pc = "init_find" /\ req'[r].pc # "init_find")
       => /\ auth' = auth
          /\ IF ~RecoversTo(req[r].body.message, req[r].body.signature,
                            users[req[r].session.userId].address)
             THEN /\ req'[r].pc = "done"
                  /\ req'[r].resp.status = 401
                  /\ req'[r].resp.error = "Invalid signature"
             ELSE req'[r].pc = "init_update"
    /\ (req[r].op = "init" /\ req[r].pc = "init_update" /\ req'[r].pc = "done")
       => /\ req'[r].resp.status = 200 /\ req'[r].resp.success
          /\ auth' = [auth EXCEPT ![req[r].session.userId].awaitingMfa = TRUE]
    /\ (req[r].op = "init" /\ req'[r].pc = "done" /\ ~req'[r].resp.success)
       => auth' = auth

\* C20: an auth row's awaitingMfa becomes true only in the last step of an
\* InitializeMfaEnrollment whose session held that user's id, whose message
\* was "enableMFA" and whose signature was that user's over that message;
\* the checks run in the order 401 "Authentication required", 400 "Invalid
\* MFA enablement message", 401 "Invalid signature", and a rejected call
\* leaves every auth row as it was.
C20_InitializeMfaGuards == [][C20_SetsAwaiting /\ C20_Rejects]_vars

\* the right message signed by another wallet: refused at the third check
C20_Witness ==
  \E r \in Slots :
    /\ Done(r) /\ req[r].op = "init"
    /\ req[r].resp.status = 401 /\ req[r].resp.error = "Invalid signature"
    /\ req[r].body.message = "enableMFA"
    /\ req[r].body.signature = Sig("0xBb", "enableMFA")
    /\ req[r].session.userId # 0
    /\ ~auth[req[r].session.userId].awaitingMfa

\* C21: a successful InitializeMfaEnrollment answers the record {success,
\* qrCode, secret}: the QR code of the key URI and the derived secret itself.
C21_InitResponseHasSecret ==
  \A r \in Slots :
    (Done(r) /\ req[r].op = "init" /\ req[r].resp.success)
    => /\ req[r].resp.qrCode
            = keyuri(req[r].user.address, "CAT Web3Signer", generateMFASecret(req[r].user.address))
       /\ req[r].resp.keys = {"success", "qrCode", "secret"}

CurrentCode(uid) == TotpToken(generateMFASecret(users[uid].address), TotpStep(now))

C22_Steps ==
  \A r \in Slots :
    /\ (req[r].op = "verify" /\ req[r].pc = "verify_find" /\ req'[r].pc # "verify_find")
       => LET uid == req[r].session.userId
          IN IF ~auth[uid].awaitingMfa
             THEN /\ req'[r].pc = "done"
                  /\ req'[r].resp.status = 400
                  /\ req'[r].resp.error = "MFA setup not initiated"
                  /\ auth' = auth
             ELSE /\ req[r].body.mfa_code = CurrentCode(uid) => req'[r].pc = "verify_update"
                  /\ req[r].body.mfa_code.secret # generateMFASecret(users[uid].address)
                       => req'[r].pc = "done"
                  /\ req'[r].pc = "done"
                       => /\ req'[r].resp.status = 401
                          /\ req'[r].resp.error = "Invalid MFA code"
                          /\ req[r].body.mfa_code # CurrentCode(uid)
                  /\ auth' = auth
    /\ (req[r].op = "verify" /\ req[r].pc = "verify_update" /\ req'[r].pc = "done")
       => /\ req'[r].resp.status = 200 /\ req'[r].resp.success
          /\ auth' = [auth EXCEPT ![req[r].session.userId].mfa = TRUE,
                                  ![req[r].session.userId].awaitingMfa = FALSE]
    /\ \A i \in 1..Len(auth) :
         (i \in 1..Len(auth') /\ ~auth[i].mfa /\ auth'[i].mfa)
         => (auth[i].awaitingMfa /\ ~auth'[i].awaitingMfa)

C22_Enrolled ==
  \A r \in Slots :
    (Done(r) /\ req[r].op = "verify" /\ req[r].resp.success)
    => (auth[req[r].session.userId].mfa /\ ~auth[req[r].session.userId].awaitingMfa)

\* C22: CompleteMfaEnrollment answers 400 "MFA setup not initiated" unless
\* awaitingMfa is true; an invalid code is answered 401 "Invalid MFA code"
\* with every auth row as it was; the code of the current time step is
\* accepted, and one update sets mfa = true and awaitingMfa = false together,
\* so that the answered enrollment leaves the account enrolled.
C22_CompleteMfaEnrollment == []C22_Enrolled /\ [][C22_Steps]_vars

C22_Witness ==
  \E r \in Slots :
    /\ Done(r) /\ req[r].op = "verify" /\ req[r].attempt = 1 /\ req[r].resp.success
    /\ req[r].body.mfa_code = CurrentCode(req[r].session.userId)
    /\ now > 0
    /\ window = DefaultWindow

C23_StaysEnabled ==
  /\ Len(auth') >= Len(auth)
  /\ \A i \in 1..Len(auth) : auth[i].mfa => auth'[i].mfa

C23_LoginPends ==
  \A r \in Slots :
    (/\ Done(r) /\ GenuineLogin(r)
     /\ findUniqueByAddress(toLowerCase(req[r].body.address)).auth.mfa)
    => \/ req[r].resp.error = "Failed to save session"
       \/ /\ req[r].resp.success /\ req[r].resp.mfa
          /\ req[r].resp.user = NoUser
          /\ sessions[req[r].sid].pendingUserId
               = findUniqueByAddress(toLowerCase(req[r].body.address)).id
          /\ sessions[req[r].sid].userId = req[r].loaded.userId

\* C23: no step sets an account's mfa flag back to false once it is true, and
\* every Login with a genuine signature for such an account ends in the
\* pending branch: mfa: true in the answer, pendingUserId in the session, no
\* user payload and no userId written.
C23_EnrollmentMonotonic == []C23_LoginPends /\ [][C23_StaysEnabled]_vars

\* the second pending Login of an enrolled account, after InitializeMfaEnrollment
\* was called on it once more
C23_Witness ==
  \E r \in Slots :
    /\ Done(r) /\ GenuineLogin(r) /\ req[r].resp.mfa
    /\ phrases = 2
    /\ auth[req[r].user.id].mfa /\ auth[req[r].user.id].awaitingMfa

\* the code of a request is one of the account's secret, at most 2 time steps
\* away from the step of the server's clock
WithinSkew(code, user) ==
  /\ code.secret = generateMFASecret(user.address)
  /\ code.step - TotpStep(now) \in (0 - 2)..2

C24_Enrollment ==
  \A r \in Slots :
    LET user == findUniqueById(req[r].session.userId)
    IN (/\ req[r].pc = "verify_find" /\ req'[r].pc # "verify_find"
        /\ user # NoUser /\ user.auth.awaitingMfa)
       => IF WithinSkew(req[r].body.mfa_code, user)
          THEN req'[r].pc = "verify_update"
          ELSE req'[r].resp = ErrorResponse(401, "Invalid MFA code")

C24_Login ==
  \A r \in Slots :
    LET user == findUniqueById(req[r].session.pendingUserId)
    IN (/\ req[r].pc = "mfa_find" /\ req'[r].pc # "mfa_find"
        /\ user # NoUser /\ ~MfaExpired(user))
       => IF WithinSkew(req[r].body.mfa_code, user)
          THEN req'[r].pc = "mfa_update"
          ELSE req'[r].resp = ErrorResponse(401, "Invalid MFA code")

\* C24: when CompleteMfaEnrollment or CompleteMfaLogin reaches its code check,
\* it accepts the code exactly when the code is one of the account's secret at
\* the current 30-second step or at one of the 2 steps before or after it.
C24_TotpSkewWindow == [][C24_Enrollment /\ C24_Login]_vars

\* recovery succeeds and yields the expected address, letter case aside
RecoversExpected(message, signature, expectedAddress) ==
  /\ signature # MalformedSig
  /\ toLowerCase(IF signature.msg = message THEN signature.signer ELSE StrangerAddress)
       = toLowerCase(expectedAddress)

\* C25: a call of verifySignature always resolves, never rejects; it resolves
\* with true exactly when recovery succeeds and the recovered address equals
\* expectedAddress up to letter case, and with a bare false otherwise, the
\* same for a wrong signer as for a signature whose recovery fails.
C25_VerifySignatureNeverThrows ==
  \A r \in Slots :
    (Done(r) /\ req[r].op = "verifySignature")
    => /\ req[r].resp.success
       /\ req[r].resp.error = ""
       /\ req[r].resp.isValid
            = RecoversExpected(req[r].body.message, req[r].body.signature, req[r].body.address)
       /\ ~req[r].resp.isValid => req[r].resp = Resolved

\* verifySignature has returned for a signature whose recovery fails
C25_Witness ==
  \E r \in Slots :
    /\ Done(r) /\ req[r].op = "verifySignature"
    /\ req[r].body.signature = MalformedSig
    /\ req[r].body.address \in Wallets
    /\ req[r].resp = Resolved

\* a body the single endpoint cannot verify: a field is missing or not a
\* string, or the signature is one on which recovery fails
Unverifiable(body) ==
  \/ body.absent \cap {"message", "signature"} # {}
  \/ body.signature = MalformedSig

C26_Endpoint ==
  \A r \in Slots :
    (/\ Arrives(r, "sig") /\ req'[r].loaded.userId # 0
     /\ Unverifiable(req'[r].body))
    => /\ req'[r].pc = "done"
       /\ req'[r].resp = ErrorResponse(400, "Failed to verify signature")
       /\ ~req'[r].verified
       /\ messages' = messages

C26_Throws ==
  \A m \in UtilMessages : recoverAddress(m, MalformedSig) = [ok |-> FALSE, address |-> ""]

\* C26: recoverAddress ends in an error, not in a value, on a signature whose
\* recovery fails; and the single verify-signature endpoint, for an
\* authenticated session, answers such a signature and a body whose message or
\* signature is missing or not a string with 400 "Failed to verify
\* signature", without running verifySignature and without creating a message.
C26_RecoveryFailureIs400 == []C26_Throws /\ [][C26_Endpoint]_vars

\* the endpoint has answered, on an authenticated session, a complete body
\* whose signature fails recovery
C26_Witness ==
  \E r \in Slots :
    /\ Done(r) /\ req[r].op = "sig" /\ req[r].loaded.userId # 0
    /\ req[r].body.absent = {} /\ req[r].body.signature = MalformedSig
    /\ req[r].recovered
    /\ req[r].resp.error = "Failed to verify signature"

\* the position of the first item whose recovery fails; 0 when there is none
FirstFailing(items) ==
  IF \E i \in 1..Len(items) : items[i].signature = MalformedSig
  THEN CHOOSE i \in 1..Len(items) :
         /\ items[i].signature = MalformedSig
         /\ \A j \in 1..(i - 1) : items[j].signature # MalformedSig
  ELSE 0

C27_Loop ==
  \A r \in Slots :
    (Arrives(r, "batch") /\ req'[r].loaded.userId # 0)
    => LET items == req'[r].body.items
           k == FirstFailing(items)
       IN /\ messages' = messages
          /\ IF Len(items) = 0
             THEN /\ req'[r].pc = "done"
                  /\ req'[r].resp = ErrorResponse(400, "No signatures provided")
                  /\ req'[r].examined = 0
             ELSE IF k # 0
             THEN /\ req'[r].pc = "done"
                  /\ req'[r].resp.status = 400 /\ ~req'[r].resp.success
                  /\ req'[r].resp.error \in {"Failed to verify signature for message",
                                             "Invalid signature for message"}
                  /\ req'[r].resp.named = items[k].message
                  /\ req'[r].examined = k
             ELSE /\ req'[r].pc = "batch_create"
                  /\ req'[r].examined = Len(items)

C27_Write ==
  \A r \in Slots :
    (req[r].pc = "batch_create" /\ req'[r].pc = "done")
    => LET items == req[r].body.items
       IN /\ FirstFailing(items) = 0
          /\ Len(messages') = Len(messages) + Len(items)
          /\ SubSeq(messages', 1, Len(messages)) = messages
          /\ \A j \in 1..Len(items) :
               /\ messages'[Len(messages) + j].message = items[j].message
               /\ messages'[Len(messages) + j].signature = items[j].signature
               /\ messages'[Len(messages) + j].userId = req[r].loaded.userId
               /\ messages'[Len(messages) + j].valid
               /\ req'[r].resp.results[j].originalMessage = items[j].message
               /\ req'[r].resp.results[j].isValid
          /\ req'[r].resp.success
          /\ req'[r].resp.totalVerified = Len(items)
          /\ Len(req'[r].resp.results) = Len(items)

C27_OnlyThen ==
  messages' # messages
    => \E r \in Slots : req[r].op = "batch" /\ req[r].pc = "batch_create"

Base32Alphabet ==
  {"A", "B", "C", "D", "E", "F", "G", "H", "I", "J", "K", "L", "M", "N", "O", "P",
   "Q", "R", "S", "T", "U", "V", "W", "X", "Y", "Z", "2", "3", "4", "5", "6", "7"}

SecretOf(r) == req[r].resp.qrCode.secret
SecretReturned(r) == Done(r) /\ req[r].op = "generateMFASecret"

AllGuardedOps == {"me", "init", "verify", "sig", "batch", "list", "get", "delete"}

PendingOnly(d) == d.userId = 0 /\ d.pendingUserId # 0

\* C29: a request to any route behind requireAuth whose session has no userId,
\* a session that is only pending included, is answered at once with 401
\* "Authentication required": the handler does not run, so none of its
\* locals is set and no user, auth row or message is read or written.
C29_GuardedRoutesNeedUserId ==
  [][\A r \in Slots, op \in AllGuardedOps :
       (Arrives(r, op) /\ sessions[req'[r].sid].userId = 0)
       => /\ req'[r] = Respond(Started(op, req'[r].sid, req'[r].body, "start"),
                               ErrorResponse(401, "Authentication required"))
          /\ users' = users /\ auth' = auth /\ messages' = messages]_vars

\* DELETE /messages/1 was refused on a session that is only pending, while
\* message 1 belongs to the user the session is pending for
C29_Witness ==
  \E r \in Slots :
    /\ Done(r) /\ req[r].op = "delete" /\ req[r].body.id = "1"
    /\ PendingOnly(sessions[req[r].sid])
    /\ Len(messages) >= 1 /\ messages[1].userId = sessions[req[r].sid].pendingUserId
    /\ req[r].resp.status = 401

IsPending(d) == d.pendingUserId # 0 /\ d.mfaBonusPhrase # NoPhrase

\* a Login that ends in the pending branch leaves its own phrase in its
\* session, a phrase no session held before
C30_Issue ==
  \A r \in Slots :
    (/\ req[r].op = "login" /\ req[r].pc # "done" /\ req'[r].pc = "done"
     /\ req'[r].resp.success /\ req'[r].resp.mfa)
    => /\ req'[r].resp.mfa_bonus_phrase # NoPhrase
       /\ sessions'[req[r].sid].mfaBonusPhrase = req'[r].resp.mfa_bonus_phrase
       /\ \A s \in Sessions : sessions[s].mfaBonusPhrase # req'[r].resp.mfa_bonus_phrase

\* CompleteMfaLogin goes on to the code check only with the phrase its own
\* session holds, which no other session holds; with any other phrase a
\* pending session is answered "Invalid bonus phrase" and stays as it is
C30_Present ==
  \A r \in Slots :
    Arrives(r, "mfa")
    => LET d == sessions[req'[r].sid]
           phrase == req'[r].body.mfa_bonus_phrase
       IN /\ (IsPending(d) /\ phrase # d.mfaBonusPhrase)
             => /\ req'[r].pc = "done"
                /\ req'[r].resp = ErrorResponse(401, "Invalid bonus phrase")
                /\ sessions' = sessions
          /\ req'[r].pc # "done"
             => /\ phrase = d.mfaBonusPhrase
                /\ \A o \in Sessions \ {req'[r].sid} : sessions[o].mfaBonusPhrase # phrase

GenericError(resp, status, error) ==
  /\ resp.status = status /\ resp.bodyStatus = status
  /\ resp.error = error /\ ~resp.success
  /\ resp.keys = {"error", "status", "success"}
  /\ resp.user = NoUser /\ resp.messages = <<>> /\ resp.mfa_bonus_phrase = NoPhrase

C31_Validation ==
  \A r \in Slots :
    (LoginArrives(r) /\ req'[r].body.absent # {})
    => /\ req'[r].pc = "done"
       /\ GenericError(req'[r].resp, 500, "Login failed")
       /\ NothingWritten
       /\ phrases' = phrases /\ window' = window

C31_Errors ==
  \A r \in Slots :
    Done(r)
    => IF req[r].resp.success
       THEN req[r].resp.status = 200 /\ req[r].resp.error = ""
       ELSE /\ req[r].resp.status \in {400, 401, 404, 500}
            /\ req[r].resp.error # ""
            /\ GenericError(req[r].resp, req[r].resp.status, req[r].resp.error)
            /\ req[r].resp.status = 500
               => req[r].resp.error \in {"Login failed", "Failed to save session",
                                         "Logout failed"}

OwnedBy(id, uid) ==
  id \in 1..Len(messages) /\ uid # 0 /\ messages[id].userId = uid

C32_Id ==
  \A r \in Slots, op \in {"get", "delete"} :
    (Arrives(r, op) /\ sessions[req'[r].sid].userId # 0)
    => /\ NothingWritten
       /\ IF ParseInt(req'[r].body.id).nan
          THEN /\ req'[r].pc = "done"
               /\ req'[r].resp.status = 400
               /\ req'[r].resp.error = "Invalid message ID"
          ELSE req'[r].pc = "message_find"

C32_Lookup ==
  \A r \in Slots :
    (req[r].pc = "message_find" /\ req'[r].pc # "message_find")
    => LET id == ParseInt(req[r].body.id).value
       IN /\ NothingWritten
          /\ IF ~OwnedBy(id, req[r].session.userId)
             THEN /\ req'[r].pc = "done"
                  /\ req'[r].resp.status = 404
                  /\ req'[r].resp.error = "Message not found"
                  /\ req'[r].resp.found = NoMessage
             ELSE IF req[r].op = "get"
             THEN /\ req'[r].pc = "done"
                  /\ req'[r].resp.success
                  /\ req'[r].resp.found = messages[id]
             ELSE req'[r].pc = "message_delete"

C32_Delete ==
  /\ \A r \in Slots :
       (req[r].pc = "message_delete" /\ req'[r].pc = "done" /\ req'[r].resp.success)
       => LET id == ParseInt(req[r].body.id).value
          IN /\ OwnedBy(id, req[r].session.userId)
             /\ Len(messages') = Len(messages)
             /\ messages'[id] = NoMessage
             /\ \A i \in 1..Len(messages) : i # id => messages'[i] = messages[i]
  /\ \A i \in 1..Len(messages) :
       (messages[i] # NoMessage /\ Len(messages') >= i /\ messages'[i] = NoMessage)
       => \E r \in Slots :
            /\ req[r].op = "delete" /\ req[r].pc = "message_delete"
            /\ ParseInt(req[r].body.id).value = i
            /\ messages[i].userId = req[r].session.userId

SentPage(body) == IF "page" \in body.absent THEN 1 ELSE body.page
SentLimit(body) == IF "limit" \in body.absent THEN 10 ELSE body.limit

\* rows is the stretch of the user's messages from offset skip, at most take
\* of them, in the order asked for
PageOfMessages(rows, uid, skip, take, order) ==
  LET all == IF order = "asc" THEN UserMessagesAsc(uid, Len(messages))
                              ELSE UserMessagesDesc(uid, Len(messages))
  IN /\ Len(rows) = IF Len(all) <= skip THEN 0
                    ELSE IF Len(all) - skip < take THEN Len(all) - skip ELSE take
     /\ \A k \in 1..Len(rows) : rows[k] = all[skip + k]

C33_Validate ==
  \A r \in Slots :
    (Arrives(r, "list") /\ sessions[req'[r].sid].userId # 0)
    => /\ NothingWritten
       /\ IF SentPage(req'[r].body) < 1 \/ SentLimit(req'[r].body) < 1
             \/ SentLimit(req'[r].body) > 100
          THEN /\ req'[r].pc = "done"
               /\ req'[r].resp.status = 500
               /\ req'[r].resp.error = "Failed to get messages"
          ELSE req'[r].pc = "list_count"

C33_Page ==
  \A r \in Slots :
    (req[r].pc = "list_find" /\ req'[r].pc = "done")
    => LET p == SentPage(req[r].body)
           l == SentLimit(req[r].body)
           pg == req'[r].resp.pagination
       IN /\ NothingWritten
          /\ req'[r].resp.success
          /\ pg.page = p /\ pg.limit = l
          /\ pg.totalCount = req[r].totalCount
          /\ pg.totalPages * l >= pg.totalCount
          /\ (pg.totalPages - 1) * l < pg.totalCount \/ (pg.totalPages = 0 /\ pg.totalCount = 0)
          /\ pg.hasNextPage = (p < pg.totalPages)
          /\ pg.hasPrevPage = (p > 1)
          /\ PageOfMessages(req'[r].resp.messages, req[r].session.userId,
                            (p - 1) * l, l, req[r].body.order)

\* C33: POST /messages with page p and limit l (1 and 10 when they are not
\* sent) answers 500 "Failed to get messages" without a query when p is below
\* 1 or l is outside 1..100; otherwise it returns the session user's messages
\* from offset (p - 1) * l, with totalPages the ceiling of totalCount / l,
\* hasNextPage exactly when p < totalPages and hasPrevPage exactly when p > 1.
C33_Pagination == [][C33_Validate /\ C33_Page]_vars

\* a CompleteMfaLogin is answered: its response leaves the server
MfaAnswers(r) == req[r].op = "mfa" /\ req[r].pc # "done" /\ req'[r].pc = "done"

C34_Failed ==
  \A r \in Slots :
    (MfaAnswers(r) /\ ~req'[r].resp.success)
    => /\ sessions'[req[r].sid].userId = sessions[req[r].sid].userId
       /\ sessions'[req[r].sid].address = sessions[req[r].sid].address

C34_Promoted ==
  \A r \in Slots :
    (MfaAnswers(r) /\ sessions'[req[r].sid].userId # sessions[req[r].sid].userId)
    => /\ req'[r].resp.success
       /\ sessions'[req[r].sid].userId = req[r].loaded.pendingUserId

\* C34: a CompleteMfaLogin that answers success: false, the 500 given when
\* clearing the timeout fails after the code was verified included, does not
\* make its session Authenticated: the stored session gets its userId from a
\* CompleteMfaLogin only when that call answers with success.
C34_MfaFailureNotAuthenticated == [][C34_Failed /\ C34_Promoted]_vars

\* C35: no auth row has awaitingMfa and mfa both true, in any reachable
\* state, a state after InitializeMfaEnrollment on an account whose MFA is
\* already enabled included.
C35_EnrollmentFlagsExclusive ==
  \A i \in 1..Len(auth) : ~(auth[i].mfa /\ auth[i].awaitingMfa)

\* a handler assigns req.session.userId in the copy it works on
AssignsUserId(r) ==
  /\ req[r].pc \notin {"idle", "done"}
  /\ req'[r].session.userId # req[r].session.userId

C36_Assign ==
  \A r \in Slots :
    AssignsUserId(r)
    => LET uid == req'[r].session.userId
       IN /\ uid \in 1..Len(users')
          /\ req'[r].session.address = users'[uid].address
          /\ \/ /\ GenuineLogin(r)
                /\ toLowerCase(req[r].body.address) = users'[uid].address
                /\ req'[r].user.id = uid /\ ~req'[r].user.auth.mfa
             \/ /\ req[r].op = "mfa"
                /\ req[r].loaded.pendingUserId = uid
                /\ req[r].loaded.mfaBonusPhrase # NoPhrase
                /\ req[r].body.mfa_bonus_phrase = req[r].loaded.mfaBonusPhrase
                /\ authenticatorVerify(req[r].body.mfa_code,
                                       generateMFASecret(users[uid].address),
                                       MfaLoginWindow, now)
                /\ ~MfaExpired(UserRow(uid))

C36_Store ==
  \A s \in Sessions :
    (sessions'[s].userId # sessions[s].userId /\ sessions'[s].userId # 0)
    => \E r \in Slots :
         /\ req[r].sid = s /\ req[r].pc \in {"login_save", "mfa_save"}
         /\ sessions'[s] = SaveSession(req[r].session)
         /\ req[r].session.userId # req[r].loaded.userId
         /\ auth[sessions'[s].userId].mfa => req[r].op = "mfa"

C36_Address ==
  \A s \in Sessions :
    sessions[s].userId # 0
    => /\ sessions[s].userId \in 1..Len(users)
       /\ sessions[s].address = users[sessions[s].userId].address

\* C36: a handler sets a session's userId to a user only in a Login with a
\* genuine signature for the user's address that found the account's mfa
\* false, or in a CompleteMfaLogin of a session pending for the user, with the
\* session's phrase, a code valid for the user's secret and a timeout that has
\* not passed; the store takes a new userId only from such a handler, and for
\* an account with mfa enabled only from a CompleteMfaLogin; and a stored
\* session's address is the address of the user its userId names.
C36_UserIdOnlyByLoginOrMfa == []C36_Address /\ [][C36_Assign /\ C36_Store]_vars

\* a pending session of an account with mfa enabled was promoted by a
\* CompleteMfaLogin whose code is not the code of the present time step
C36_Witness ==
  \E r \in Slots :
    /\ Done(r) /\ req[r].op = "mfa" /\ req[r].resp.success
    /\ req[r].loaded.userId = 0 /\ req[r].loaded.pendingUserId = 1
    /\ sessions[req[r].sid].userId = 1 /\ auth[1].mfa
    /\ sessions[req[r].sid].address = "0xaa"
    /\ req[r].body.mfa_code # CurrentCode(1)

\* the code of a request is a code of user uid's secret, of the time step of
\* t or of one within the widest tolerance the server uses
CodeOfUser(code, uid, t) ==
  authenticatorVerify(code, generateMFASecret(users[uid].address), MfaLoginWindow, t)

C37_Check ==
  \A r \in Slots :
    (req[r].pc = "verify_find" /\ req'[r].pc = "verify_update")
    => LET uid == req[r].session.userId
       IN /\ uid # 0 /\ sessions[req[r].sid].userId = uid
          /\ req'[r].user.id = uid
          /\ auth[uid].awaitingMfa
          /\ CodeOfUser(req[r].body.mfa_code, uid, now)

C37_Enable ==
  \A i \in 1..Len(auth) :
    (auth'[i].mfa # auth[i].mfa)
    => /\ auth'[i].mfa /\ auth[i].awaitingMfa
       /\ \E r \in Slots :
            /\ req[r].op = "verify" /\ req[r].pc = "verify_update"
            /\ req'[r].pc = "done" /\ req'[r].resp.success
            /\ req[r].user.id = i /\ sessions[req[r].sid].userId = i

C37_Others ==
  \A i \in 1..Len(auth) :
    (auth'[i].mfa # auth[i].mfa \/ auth'[i].awaitingMfa # auth[i].awaitingMfa)
    => \E r \in Slots :
         /\ req[r].op \in {"init", "verify"} /\ req'[r].pc = "done"
         /\ sessions[req[r].sid].userId = i

\* C37: an account's mfa becomes true only in a CompleteMfaEnrollment on a
\* session authenticated as that account's user, while awaitingMfa is true,
\* whose code is a code of that user's secret; and mfa and awaitingMfa of an
\* account change only in InitializeMfaEnrollment and CompleteMfaEnrollment
\* requests of a session authenticated as its user, never in a Login, a
\* CompleteMfaLogin or a request of a session authenticated as another user.
C37_EnableOnlyByOwnEnrollment == [][C37_Check /\ C37_Enable /\ C37_Others]_vars

\* the first account has enabled MFA; the second awaits its enrollment and
\* has not, after a session authenticated as its user sent
\* CompleteMfaEnrollment with the current code of the first account's secret
C37_Witness ==
  \E r \in Slots :
    /\ Len(auth) = 2 /\ auth[1].mfa /\ ~auth[1].awaitingMfa
    /\ ~auth[2].mfa /\ auth[2].awaitingMfa
    /\ Done(r) /\ req[r].op = "verify" /\ req[r].loaded.userId = 2
    /\ req[r].body.mfa_code = CurrentCode(1)
    /\ req[r].resp.error = "Invalid MFA code"

\* the verdict of the code check of a server that has processed no
\* CompleteMfaLogin: otplib's window is the one it starts with
FreshVerdict(code, user) ==
  authenticatorVerify(code, generateMFASecret(user.address), DefaultWindow, now)

C38_Verdict ==
  \A r \in Slots :
    LET user == findUniqueById(req[r].session.userId)
    IN (/\ req[r].op = "verify"
        /\ req[r].pc = "verify_find" /\ req'[r].pc # "verify_find"
        /\ user # NoUser /\ user.auth.awaitingMfa)
       => (req'[r].pc = "verify_update") = FreshVerdict(req[r].body.mfa_code, user)

\* C38: the answer of CompleteMfaEnrollment to a code depends on the request,
\* the account and the time only: for the same code, account and time step it
\* accepts or rejects as a server that has processed no CompleteMfaLogin
\* does, whatever CompleteMfaLogin requests came before it.
C38_EnrollmentVerdictHistoryFree == [][C38_Verdict]_vars

\* C39: a Login that is answered without success has written nothing to the
\* users and auth tables: it has inserted no user and auth row, and the
\* mfaTimeoutTimestamp of the account it looked up is the one it found, also
\* when it is the save of the session that failed.
C39_FailedLoginWritesNothing ==
  \A r \in Slots :
    (Done(r) /\ req[r].op = "login" /\ ~req[r].resp.success)
    => /\ ~req[r].created
       /\ req[r].user # NoUser
            => auth[req[r].user.id].mfaTimeoutTimestamp
                 = req[r].user.auth.mfaTimeoutTimestamp

\* the address ethers recovers from a message and a signature of it, spelled
\* out: the signer when the signature is of that message, another address
\* when it is of another one
Recovered(message, signature) ==
  IF signature.msg = message THEN signature.signer ELSE StrangerAddress

C40_Rows ==
  \A i \in 1..Len(messages) :
    messages[i] # NoMessage
    => /\ messages[i].signature # MalformedSig
       /\ messages[i].signer = Recovered(messages[i].message, messages[i].signature)
       /\ messages[i].valid = TRUE

C40_Answers ==
  \A r \in Slots :
    (Done(r) /\ req[r].op = "sig" /\ req[r].resp.success)
    => /\ req[r].body.signature # MalformedSig
       /\ req[r].resp.isValid = TRUE
       /\ req[r].resp.signer = Recovered(req[r].body.message, req[r].body.signature)

====
